---- MODULE Spec2Model ----
(***************************************************************************)
(* A model of the WorkflowX core: the session clusterer                    *)
(* (inference/clusterer.py), the per-day session store (storage.py), the   *)
(* pattern detector and the friction trends (inference/patterns.py), the   *)
(* outcome measurement (measurement.py) and the daemon's scheduling, its   *)
(* five loops and its capture, analyze and measure jobs (daemon.py).       *)
(*                                                                         *)
(* Time.  A datetime is the number of ticks since midnight of day 0; a     *)
(* second has TicksPerSecond ticks (the source has 10^6 microseconds).     *)
(* A float number of minutes is kept exact as a number of ticks, and a     *)
(* comparison of two floats becomes a comparison of integers by cross      *)
(* multiplication.                                                         *)
(***************************************************************************)
EXTENDS Integers, Sequences, FiniteSets, TLC

\* ---------------------------------------------------------------- bounds
TicksPerSecond == 2
MaxEvents == 3
MaxBatch == 2
MaxSessions == 3

\* ------------------------------------------------------ program constants
DEFAULT_GAP_MINUTES == 5
MIN_SESSION_EVENTS == 2
FOCUS_WINDOW_SECONDS == 30

SecondTicks == TicksPerSecond
MinuteTicks == 60 * SecondTicks
DayTicks == 24 * 60 * MinuteTicks

\* datetime(day, h, m, s) plus `sub` ticks of sub-second part
At(day, h, m, s, sub) == (((day * 24 + h) * 60 + m) * 60 + s) * SecondTicks + sub

VARIABLES
    events,        \* the event sequence handed to cluster_into_sessions
    gap_minutes,   \* argument gap_minutes of the last call
    min_events,    \* argument min_events of the last call
    clustered,     \* the list the last call returned
    cpc,           \* "collect": events are being captured; "returned": the call returned
    day_file,      \* the JSON list in sessions/<d>.json, for one day d
    file_before,   \* history: day_file before the last save_sessions call
    last_batch,    \* history: the sessions argument of the last save_sessions call
    last_saved,    \* history: id -> the record most recently saved under that id
    all_sessions,         \* the session sequence handed to detect_patterns
    similarity_threshold, \* argument similarity_threshold of the last call, in hundredths
    min_occurrences,      \* argument min_occurrences of the last call
    patterns,             \* the list the last call returned
    ppc,                  \* "collect": sessions are being loaded; "returned"
    trend_sessions, \* the session sequence handed to compute_friction_trends
    num_weeks,      \* argument num_weeks of the last call
    trends,         \* the list the last call returned
    tpc,            \* "collect": sessions are being loaded; "returned"
    outcome,          \* the ReplacementOutcome object being tracked, or NoOutcome
    outcome_origin,   \* "none", "created" (by create_outcome) or "loaded"
    outcome_before,   \* history: the fields of outcome before the last measure_outcome call
    recent_sessions,  \* the session list the caller passes to measure_outcome
    lookback_days,    \* argument lookback_days of the last measure_outcome call
    measured_at,      \* datetime.now() during the last create/measure call
    last_op,          \* "none", "create", "load" or "measure"
    measure_calls,    \* history: the measure_outcome calls made on the outcome
    gate_call,        \* the last should_measure call: its arguments and its result
    fire_call,        \* the last next_fire_time call: its arguments and its outcome
    screen_log,       \* the events Screenpipe has or will have recorded, by their timestamps
    dclock,           \* datetime.now() of the daemon's machine
    capture_target,   \* `target` of capture_loop: the time it sleeps until
    analyze_target,   \* `target` of analyze_loop
    sessions_dir,     \* day -> the JSON list in sessions/<day>.json
    state_file,       \* <<>> while the daemon state file is missing, else <<its JSON>>
    notified,         \* history: session id -> number of propose notifications that named it
    last_job,         \* history: the job that ran last
    loop_file,        \* the daemon state file the five loops share: <<>> or <<its JSON>>
    loop_pc,          \* loop -> "stopped", "sleep" (in asyncio.sleep) or "llm" (in an LLM call)
    loop_target,      \* loop -> the time its sleep ends
    loop_clock,       \* datetime.now() while the loops run
    analyze_local,    \* the variable `state` of analyze_loop
    health_checks,    \* the number of health checks made
    last_writer,      \* history: the loop that wrote the state file last
    focus_events,     \* the event list handed to _count_focus_switches
    focus_timeline,   \* its local focus_timeline when it returned
    focus_result,     \* the pair (switches, unique_apps) it returned
    fpc,              \* "collect": the list is being put together; "returned"
    intent_sessions,  \* sessions of one intent, handed to detect_patterns
    pattern_trend,    \* the trend of the one pattern it returned
    bpc,              \* "collect": the sessions are being put together; "built"
    outcomes_file,    \* the JSON list in outcomes.json
    job_clock,        \* datetime.now() of the machine the measure job runs on
    job_count         \* <<>>, or <<n>> when the last thing that happened was a run that returned n

cvars == <<events, gap_minutes, min_events, clustered, cpc>>
svars == <<day_file, file_before, last_batch, last_saved>>

pvars == <<all_sessions, similarity_threshold, min_occurrences, patterns, ppc>>

tvars == <<trend_sessions, num_weeks, trends, tpc>>

ovars == <<outcome, outcome_origin, outcome_before, recent_sessions, lookback_days, measured_at, last_op,
           measure_calls>>

gvars == <<gate_call>>
fvars == <<fire_call>>
dvars == <<screen_log, dclock, capture_target, analyze_target, sessions_dir, state_file,
           notified, last_job>>

lvars == <<loop_file, loop_pc, loop_target, loop_clock, analyze_local, health_checks,
           last_writer>>

nvars == <<focus_events, focus_timeline, focus_result, fpc>>

bvars == <<intent_sessions, pattern_trend, bpc>>

mvars == <<outcomes_file, job_clock, job_count>>

vars == <<cvars, svars, pvars, tvars, ovars, gvars, fvars, dvars, lvars, nvars, bvars, mvars>>

\* what an operation of one component leaves alone: the other components
not_cvars == <<svars, pvars, tvars, ovars, gvars, fvars, dvars, lvars, nvars, bvars, mvars>>
not_svars == <<cvars, pvars, tvars, ovars, gvars, fvars, dvars, lvars, nvars, bvars, mvars>>
not_pvars == <<cvars, svars, tvars, ovars, gvars, fvars, dvars, lvars, nvars, bvars, mvars>>
not_tvars == <<cvars, svars, pvars, ovars, gvars, fvars, dvars, lvars, nvars, bvars, mvars>>
not_ovars == <<cvars, svars, pvars, tvars, gvars, fvars, dvars, lvars, nvars, bvars, mvars>>
not_gvars == <<cvars, svars, pvars, tvars, ovars, fvars, dvars, lvars, nvars, bvars, mvars>>
not_fvars == <<cvars, svars, pvars, tvars, ovars, gvars, dvars, lvars, nvars, bvars, mvars>>
not_dvars == <<cvars, svars, pvars, tvars, ovars, gvars, fvars, lvars, nvars, bvars, mvars>>
not_lvars == <<cvars, svars, pvars, tvars, ovars, gvars, fvars, dvars, nvars, bvars, mvars>>
not_nvars == <<cvars, svars, pvars, tvars, ovars, gvars, fvars, dvars, lvars, bvars, mvars>>
not_bvars == <<cvars, svars, pvars, tvars, ovars, gvars, fvars, dvars, lvars, nvars, mvars>>
not_mvars == <<cvars, svars, pvars, tvars, ovars, gvars, fvars, dvars, lvars, nvars, bvars>>

\* ------------------------------------------------------------ generic helpers
Max(a, b) == IF a >= b THEN a ELSE b
Min(a, b) == IF a <= b THEN a ELSE b

Range(s) == {s[i] : i \in 1..Len(s)}

RECURSIVE SumSeq(_)
SumSeq(s) == IF s = <<>> THEN 0 ELSE Head(s) + SumSeq(Tail(s))

\* list(dict.fromkeys(s)): the distinct elements of s in order of first occurrence
RECURSIVE Dedupe(_)
Dedupe(s) ==
    IF s = <<>> THEN <<>>
    ELSE LET front == Dedupe(SubSeq(s, 1, Len(s) - 1))
             last == s[Len(s)]
         IN IF last \in Range(front) THEN front ELSE Append(front, last)

\* ------------------------------------------------------------ clusterer.py

\* as InsertByTimestamp, had the events been left in the order given
InsertAtEnd(sorted, e) == Append(sorted, e)

\* sorted(events, key=lambda e: e.timestamp): Python's sort is stable, so an
\* event is placed after every event already placed whose timestamp is <= its own.
InsertByTimestamp(sorted, e) ==
    LET n == Cardinality({i \in 1..Len(sorted) : sorted[i].timestamp <= e.timestamp})
    IN SubSeq(sorted, 1, n) \o <<e>> \o SubSeq(sorted, n + 1, Len(sorted))

RECURSIVE SortByTimestamp(_)
SortByTimestamp(s) ==
    IF s = <<>> THEN <<>>
    ELSE InsertByTimestamp(SortByTimestamp(SubSeq(s, 1, Len(s) - 1)), s[Len(s)])

\* as ActivityWeight, had the weight not been capped
ActivityWeightUncapped(e) == e.ocr_len \div 200 + 1

\* _activity_weight: min(len(ocr_text.strip()) // 200 + 1, 5); an event carries
\* the length of its trimmed OCR text as ocr_len.
ActivityWeight(e) == Min(e.ocr_len \div 200 + 1, 5)

Qualifies(e) == e.app_name # "" /\ e.app_name # "audio"

\* int((e.timestamp - start).total_seconds() // FOCUS_WINDOW_SECONDS)
BucketIndex(e, start) == (e.timestamp - start) \div (FOCUS_WINDOW_SECONDS * SecondTicks)

\* the qualifying events of bucket idx, in event order
BucketEvents(evs, idx) ==
    SelectSeq(evs, LAMBDA e : Qualifies(e) /\ BucketIndex(e, evs[1].timestamp) = idx)

\* as BucketWeight, had the weight been assigned (=) and not accumulated (+=)
BucketWeightAssigned(bevs, app) ==
    LET own == SelectSeq(bevs, LAMBDA e : e.app_name = app)
    IN IF own = <<>> THEN 0 ELSE ActivityWeight(own[Len(own)])

\* buckets[idx][app]: the accumulated weight of app in the bucket
RECURSIVE BucketWeight(_, _)
BucketWeight(bevs, app) ==
    IF bevs = <<>> THEN 0
    ELSE (IF Head(bevs).app_name = app THEN ActivityWeight(Head(bevs)) ELSE 0)
         + BucketWeight(Tail(bevs), app)

\* buckets[i].most_common(1)[0][0]: a Counter keeps its keys in insertion order
\* and most_common(1) is max() over them, which returns the first maximal key.
BucketWinner(bevs) ==
    LET apps == Dedupe([i \in 1..Len(bevs) |-> bevs[i].app_name])
        best == CHOOSE k \in 1..Len(apps) :
                   /\ \A j \in 1..Len(apps) :
                          BucketWeight(bevs, apps[j]) <= BucketWeight(bevs, apps[k])
                   /\ \A j \in 1..(k - 1) :
                          BucketWeight(bevs, apps[j]) < BucketWeight(bevs, apps[k])
    IN apps[best]

\* the elements of a finite set of integers in ascending order
RECURSIVE Ascending(_)
Ascending(S) ==
    IF S = {} THEN <<>>
    ELSE LET m == CHOOSE x \in S : \A y \in S : x <= y
         IN <<m>> \o Ascending(S \ {m})

FocusTimeline(evs) ==
    LET idxs == {BucketIndex(evs[i], evs[1].timestamp) :
                    i \in {j \in 1..Len(evs) : Qualifies(evs[j])}}
        order == Ascending(idxs)
    IN [k \in 1..Len(order) |-> BucketWinner(BucketEvents(evs, order[k]))]

\* as CountSwitches, had a switch been counted for every app after the first
CountNewApps(timeline) == Cardinality(Range(timeline)) - 1

\* sum(1 for a, b in zip(focus_timeline, focus_timeline[1:]) if a != b)
CountSwitches(timeline) ==
    Cardinality({k \in 1..(Len(timeline) - 1) : timeline[k] # timeline[k + 1]})

\* _count_focus_switches: (switch_count, apps_in_order_of_first_focus)
CountFocusSwitches(evs) ==
    IF evs = <<>> THEN <<0, <<>> >>
    ELSE LET timeline == FocusTimeline(evs)
         IN IF timeline = <<>> THEN <<0, <<>> >>
            ELSE <<CountSwitches(timeline), Dedupe(timeline)>>

\* as FrictionOf, had the thresholds been inclusive
FrictionOfInclusive(switches, dur) ==
    LET den == Max(dur, MinuteTicks)
        num == switches * MinuteTicks
    IN IF 10 * num >= 5 * den THEN "critical"
       ELSE IF 10 * num >= 2 * den THEN "high"
       ELSE IF 10 * num >= 1 * den THEN "medium"
       ELSE "low"

\* the friction branch of _build_session.  switches_per_min is
\* switches / max(duration_min, 1.0) with duration_min = dur / MinuteTicks, so
\* switches_per_min > p/10 is  10 * switches * MinuteTicks > p * max(dur, MinuteTicks).
FrictionOf(switches, dur) ==
    LET den == Max(dur, MinuteTicks)
        num == switches * MinuteTicks
    IN IF 10 * num > 5 * den THEN "critical"
       ELSE IF 10 * num > 2 * den THEN "high"
       ELSE IF 10 * num > 1 * den THEN "medium"
       ELSE "low"

\* as SessionKey, had the key been formatted with the sub-second part ('%H%M%S%f')
SessionKeyWithFraction(start) ==
    LET secOfDay == (start % DayTicks) \div SecondTicks
    IN <<start \div DayTicks, secOfDay \div 3600, (secOfDay \div 60) % 60, secOfDay % 60,
         start % SecondTicks>>

\* start.date().isoformat() and start.strftime('%H%M%S'): the day and the
\* hour, minute and second of the day; the sub-second part is not in the key.
SessionKey(start) ==
    LET secOfDay == (start % DayTicks) \div SecondTicks
    IN <<start \div DayTicks, secOfDay \div 3600, (secOfDay \div 60) % 60, secOfDay % 60>>

\* hashlib.md5(key).hexdigest()[:12]: a digest is a value that depends on the
\* hashed text and on nothing else; distinct texts get distinct digests
\* (no collision of the 48-bit prefix is assumed).
Md5Hex12(key) == <<"md5", key>>

\* round(duration_min, 1), in tenths of a minute (ties to the even tenth)
RoundTenths(dur) ==
    LET q == (10 * dur) \div MinuteTicks
        r == (10 * dur) % MinuteTicks
    IN IF 2 * r > MinuteTicks THEN q + 1
       ELSE IF 2 * r < MinuteTicks THEN q
       ELSE IF q % 2 = 0 THEN q ELSE q + 1

\* _build_session
BuildSession(evs) ==
    LET sw == CountFocusSwitches(evs)
        start == evs[1].timestamp
        end == evs[Len(evs)].timestamp
    IN [id |-> Md5Hex12(SessionKey(start)),
        start_time |-> start,
        end_time |-> end,
        events |-> evs,
        inferred_intent |-> <<>>,
        apps_used |-> sw[2],
        total_duration_minutes |-> RoundTenths(end - start),
        context_switches |-> sw[1],
        friction_level |-> FrictionOf(sw[1], end - start)]

\* as CloseSession, had the test been len(current_events) > min_events
CloseSessionStrict(sessions, current, minEv) ==
    IF Len(current) > minEv THEN Append(sessions, BuildSession(current)) ELSE sessions

\* the `if len(current_events) >= min_events: sessions.append(...)` of both
\* the loop body and the code after the loop
CloseSession(sessions, current, minEv) ==
    IF Len(current) >= minEv THEN Append(sessions, BuildSession(current)) ELSE sessions

\* as GapExceeds, had the test been gap >= gap_minutes
GapReaches(gap, gapMin) == gap >= gapMin * MinuteTicks

\* `if gap > gap_minutes`, gap being a number of ticks and gapMin a number of
\* minutes: both sides are scaled to ticks.
GapExceeds(gap, gapMin) == gap > gapMin * MinuteTicks

\* the loop over zip(sorted_events[:-1], sorted_events[1:]); i is the index of curr.
RECURSIVE ClusterLoop(_, _, _, _, _, _)
ClusterLoop(sorted, i, current, sessions, gapMin, minEv) ==
    IF i > Len(sorted) THEN CloseSession(sessions, current, minEv)
    ELSE LET gap == sorted[i].timestamp - sorted[i - 1].timestamp
         IN IF GapExceeds(gap, gapMin)
            THEN ClusterLoop(sorted, i + 1, <<sorted[i]>>,
                             CloseSession(sessions, current, minEv), gapMin, minEv)
            ELSE ClusterLoop(sorted, i + 1, Append(current, sorted[i]),
                             sessions, gapMin, minEv)

\* cluster_into_sessions
ClusterIntoSessions(evs, gapMin, minEv) ==
    IF evs = <<>> THEN <<>>
    ELSE LET sorted == SortByTimestamp(evs)
         IN ClusterLoop(sorted, 2, <<sorted[1]>>, <<>>, gapMin, minEv)

\* ------------------------------------------------- inputs of the clusterer
Event(ts, app, ocr) == [timestamp |-> ts, app_name |-> app, ocr_len |-> ocr]

\* the events a capture can deliver: two at the same instant, one half a
\* second later, one in the next 30 s bucket, at 5 and 10 minutes, an
\* ambient-audio event and one on the next day at the same clock time
EventPool ==
    { Event(At(0, 10, 0, 0, 0), "VSCode", 0),
      Event(At(0, 10, 0, 0, 0), "Chrome", 0),
      Event(At(0, 10, 0, 0, 1), "Chrome", 200),
      Event(At(0, 10, 0, 30, 0), "Chrome", 0),
      Event(At(0, 10, 0, 30, 0), "audio", 0),
      Event(At(0, 10, 5, 0, 0), "VSCode", 0),
      Event(At(0, 10, 10, 0, 0), "Chrome", 0),
      Event(At(1, 10, 0, 0, 0), "VSCode", 0) }

GapChoices == {-1, 0, DEFAULT_GAP_MINUTES, 2 * DEFAULT_GAP_MINUTES}
MinEventsChoices == {0, 1, MIN_SESSION_EVENTS, MaxEvents + 1}

\* ------------------------------------------------------------ the clusterer
InitCluster ==
    /\ events = <<>>
    /\ gap_minutes = DEFAULT_GAP_MINUTES
    /\ min_events = MIN_SESSION_EVENTS
    /\ clustered = <<>>
    /\ cpc = "collect"

\* the capture adapter delivers one more event, in any order of timestamps
Capture(e) ==
    /\ cpc = "collect"
    /\ Len(events) < MaxEvents
    /\ events' = Append(events, e)
    /\ UNCHANGED <<gap_minutes, min_events, clustered, cpc>>
    /\ UNCHANGED not_cvars

\* as CallCluster, had the function sorted the caller's list itself
\* (events.sort(...) for sorted(events, ...))
CallClusterSortingInPlace(g, m) ==
    /\ cpc = "collect"
    /\ gap_minutes' = g
    /\ min_events' = m
    /\ clustered' = ClusterIntoSessions(events, g, m)
    /\ cpc' = "returned"
    /\ events' = SortByTimestamp(events)
    /\ UNCHANGED not_cvars

\* a call cluster_into_sessions(events, g, m)
CallCluster(g, m) ==
    /\ cpc = "collect"
    /\ gap_minutes' = g
    /\ min_events' = m
    /\ clustered' = ClusterIntoSessions(events, g, m)
    /\ cpc' = "returned"
    /\ UNCHANGED events
    /\ UNCHANGED not_cvars

\* the caller starts over with a new capture window
NewWindow ==
    /\ cpc = "returned"
    /\ events' = <<>>
    /\ clustered' = <<>>
    /\ gap_minutes' = DEFAULT_GAP_MINUTES
    /\ min_events' = MIN_SESSION_EVENTS
    /\ cpc' = "collect"
    /\ UNCHANGED not_cvars

NextCluster ==
    \/ \E e \in EventPool : Capture(e)
    \/ \E g \in GapChoices, m \in MinEventsChoices : CallCluster(g, m)
    \/ NewWindow


\* ------------------------------------------------- claims on the clusterer
RECURSIVE SessionEvents(_)
SessionEvents(ss) == IF ss = <<>> THEN <<>> ELSE Head(ss).events \o SessionEvents(Tail(ss))

CountIn(s, x) == Cardinality({i \in 1..Len(s) : s[i] = x})

Unsorted(evs) == \E i \in 1..(Len(evs) - 1) : evs[i].timestamp > evs[i + 1].timestamp

\* C1: with min_events = 1 and gap_minutes >= 0 every event of a non-empty input
\* is in exactly one returned session (as many times as it is in the input), the
\* sessions taken one after the other are in timestamp order, two neighbours inside
\* a session are at most gap_minutes apart and the last event of a session and the
\* first of the next are more than gap_minutes apart.
C1_GapRulePartition ==
    (cpc = "returned" /\ min_events = 1 /\ events # <<>> /\ gap_minutes >= 0) =>
        LET flat == SessionEvents(clustered)
        IN /\ Len(flat) = Len(events)
           /\ \A e \in Range(events) : CountIn(flat, e) = CountIn(events, e)
           /\ \A i \in 1..(Len(flat) - 1) : flat[i].timestamp <= flat[i + 1].timestamp
           /\ \A k \in 1..Len(clustered) :
                  LET evs == clustered[k].events
                  IN /\ Len(evs) >= 1
                     /\ \A j \in 1..(Len(evs) - 1) :
                            evs[j + 1].timestamp - evs[j].timestamp
                                <= gap_minutes * MinuteTicks
           /\ \A k \in 1..(Len(clustered) - 1) :
                  LET evs == clustered[k].events
                  IN clustered[k + 1].events[1].timestamp - evs[Len(evs)].timestamp
                         > gap_minutes * MinuteTicks

C1_Witness ==
    /\ cpc = "returned" /\ min_events = 1 /\ gap_minutes = DEFAULT_GAP_MINUTES
    /\ Unsorted(events)
    /\ Len(clustered) = 2
    /\ \E k \in 1..2 :
           LET evs == clustered[k].events
           IN Len(evs) = 2 /\ evs[2].timestamp - evs[1].timestamp = gap_minutes * MinuteTicks

\* C2: the returned list is the list of the gap-delimited runs (what min_events = 1
\* returns) without the runs of fewer than min_events events, the last run
\* included; every returned session has at least min_events events and an empty
\* input gives the empty list.
C2_MinEventsFilter ==
    cpc = "returned" =>
        /\ (events = <<>> => clustered = <<>>)
        /\ \A k \in 1..Len(clustered) : Len(clustered[k].events) >= min_events
        /\ clustered = SelectSeq(ClusterIntoSessions(events, gap_minutes, 1),
                                 LAMBDA s : Len(s.events) >= min_events)

C2_Witness ==
    /\ cpc = "returned" /\ min_events = MIN_SESSION_EVENTS
    /\ LET runs == ClusterIntoSessions(events, gap_minutes, 1)
       IN /\ Len(runs) = 2
          /\ Len(runs[1].events) = min_events
          /\ Len(runs[2].events) < min_events
          /\ clustered = <<runs[1]>>

\* the sessions other calls return: every input of one or two events, every gap
OtherCallSessions ==
    UNION { Range(ClusterIntoSessions(inp, g, 1)) :
              inp \in {<<a>> : a \in EventPool} \cup {<<a, b>> : a, b \in EventPool},
              g \in GapChoices }

SameDayAndSecond(t1, t2) == t1 \div SecondTicks = t2 \div SecondTicks

\* C3: a session of this call and a session of any other call that start on the
\* same day in the same second have the same id, whatever their events, their
\* sub-second start and the arguments of the two calls.
C3_IdFromStartSecond ==
    cpc = "returned" =>
        \A s \in Range(clustered) : \A o \in OtherCallSessions :
            SameDayAndSecond(s.start_time, o.start_time) => s.id = o.id

C3_Witness ==
    /\ cpc = "returned"
    /\ \E s \in Range(clustered) : \E o \in OtherCallSessions :
           /\ SameDayAndSecond(s.start_time, o.start_time)
           /\ s.start_time # o.start_time
           /\ Len(s.events) # Len(o.events)
           /\ s.id = o.id

\* C4: for gap_minutes >= 0 no two sessions of one returned list have the same id.
C4_IdsUniqueInOneCall ==
    (cpc = "returned" /\ gap_minutes >= 0) =>
        \A i, j \in 1..Len(clustered) : i # j => clustered[i].id # clustered[j].id

StartIsMinEndIsMax(s) ==
    /\ \A e \in Range(s.events) : s.start_time <= e.timestamp /\ e.timestamp <= s.end_time
    /\ \E e \in Range(s.events) : e.timestamp = s.start_time
    /\ \E e \in Range(s.events) : e.timestamp = s.end_time

\* C6 as stated: start_time is the smallest and end_time the largest timestamp of
\* the session's events, and each session ends strictly before the next starts,
\* for every gap_minutes.
C6_StrictlyChronological ==
    cpc = "returned" =>
        /\ \A k \in 1..Len(clustered) : StartIsMinEndIsMax(clustered[k])
        /\ \A k \in 1..(Len(clustered) - 1) :
               clustered[k].end_time < clustered[k + 1].start_time

\* C6 as amended: start_time is the smallest and end_time the largest timestamp of
\* the session's events whatever the order of the input; each session ends no
\* later than the next starts, and strictly earlier when gap_minutes >= 0.
C6_Chronological ==
    cpc = "returned" =>
        /\ \A k \in 1..Len(clustered) : StartIsMinEndIsMax(clustered[k])
        /\ \A k \in 1..(Len(clustered) - 1) :
               /\ clustered[k].end_time <= clustered[k + 1].start_time
               /\ gap_minutes >= 0 =>
                      clustered[k].end_time < clustered[k + 1].start_time

C6_Witness ==
    /\ cpc = "returned" /\ gap_minutes >= 0
    /\ Unsorted(events)
    /\ Len(clustered) = 2
    /\ clustered[1].start_time < clustered[1].end_time
    /\ clustered[1].end_time < clustered[2].start_time

FrictionRank(level) ==
    CASE level = "low" -> 0 [] level = "medium" -> 1
      [] level = "high" -> 2 [] level = "critical" -> 3

\* r > p / 10, for r = switches / max(duration_minutes, 1.0)
RateAbove(switches, dur, p) == 10 * switches * MinuteTicks > p * Max(dur, MinuteTicks)

\* the rate of (sw1, dur1) is strictly higher than that of (sw2, dur2)
RateHigher(sw1, dur1, sw2, dur2) ==
    sw1 * Max(dur2, MinuteTicks) > sw2 * Max(dur1, MinuteTicks)

\* durations of 0 to 20 minutes in steps of half a minute
DurationGrid == {k * FOCUS_WINDOW_SECONDS * SecondTicks : k \in 0..40}

\* C7: with r = context_switches / max(duration in minutes, 1.0), a returned
\* session is CRITICAL iff r > 0.5, HIGH iff 0.2 < r <= 0.5, MEDIUM iff
\* 0.1 < r <= 0.2 and LOW iff r <= 0.1; a session without switches is LOW; and
\* against any other switch count and duration, the higher rate never has the
\* lower level.
C7_FrictionByRate ==
    cpc = "returned" =>
        \A s \in Range(clustered) :
            LET sw == s.context_switches
                dur == s.end_time - s.start_time
            IN /\ s.friction_level \in {"low", "medium", "high", "critical"}
               /\ s.friction_level = "critical" <=> RateAbove(sw, dur, 5)
               /\ s.friction_level = "high" <=>
                      (RateAbove(sw, dur, 2) /\ ~RateAbove(sw, dur, 5))
               /\ s.friction_level = "medium" <=>
                      (RateAbove(sw, dur, 1) /\ ~RateAbove(sw, dur, 2))
               /\ s.friction_level = "low" <=> ~RateAbove(sw, dur, 1)
               /\ sw = 0 => s.friction_level = "low"
               /\ \A sw2 \in 0..MaxEvents : \A dur2 \in DurationGrid :
                      /\ RateHigher(sw, dur, sw2, dur2) =>
                             FrictionRank(s.friction_level)
                                 >= FrictionRank(FrictionOf(sw2, dur2))
                      /\ RateHigher(sw2, dur2, sw, dur) =>
                             FrictionRank(FrictionOf(sw2, dur2))
                                 >= FrictionRank(s.friction_level)

C7_Witness ==
    /\ cpc = "returned"
    /\ \E s \in Range(clustered) :
           /\ s.context_switches = 1
           /\ s.end_time - s.start_time = 5 * MinuteTicks
           /\ s.friction_level = "medium"


\* --------------------------------------------------------------- storage.py

\* datetime.isoformat() and its inverse, datetime.fromisoformat()
IsoFormat(t) == <<"iso", t>>

FromIsoFormat(str) == str[2]

DatetimeFields == {"start_time", "end_time"}

\* json.loads(session.model_dump_json()): the JSON object of a session.  It has
\* every field of the session; a datetime is written as its ISO string, the
\* timestamps of the events included, and a string, number or boolean as
\* itself.
ModelDumpJson(session) ==
    [f \in DOMAIN session |->
        IF f \in DatetimeFields THEN IsoFormat(session[f])
        ELSE IF f = "events"
        THEN [i \in 1..Len(session[f]) |->
                 [session[f][i] EXCEPT !.timestamp = IsoFormat(@)]]
        ELSE session[f]]

\* WorkflowSession.model_validate(data), as load_sessions applies it to each
\* object of the file
ModelValidate(data) ==
    [f \in DOMAIN data |->
        IF f \in DatetimeFields THEN FromIsoFormat(data[f])
        ELSE IF f = "events"
        THEN [i \in 1..Len(data[f]) |->
                 [data[f][i] EXCEPT !.timestamp = FromIsoFormat(@)]]
        ELSE data[f]]

\* as NoteId, had `existing_ids.add(session.id)` been left out
NoteIdForgotten(existing_ids, id) == existing_ids

\* existing_ids.add(session.id)
NoteId(existing_ids, id) == existing_ids \cup {id}

\* [data if s.get("id") == session.id else s for s in existing]
ReplaceById(existing, id, data) ==
    [i \in 1..Len(existing) |-> IF existing[i].id = id THEN data ELSE existing[i]]

\* the loop `for session in sessions` of save_sessions
RECURSIVE SaveLoop(_, _, _)
SaveLoop(existing, existing_ids, sessions) ==
    IF sessions = <<>> THEN existing
    ELSE LET session == Head(sessions)
             data == ModelDumpJson(session)
         IN IF session.id \notin existing_ids
            THEN SaveLoop(Append(existing, data), NoteId(existing_ids, session.id),
                          Tail(sessions))
            ELSE SaveLoop(ReplaceById(existing, session.id, data), existing_ids,
                          Tail(sessions))

\* LocalStore.save_sessions: what _save_json writes, given what _load_json_list read
SaveSessions(existing, sessions) ==
    SaveLoop(existing, {existing[i].id : i \in 1..Len(existing)}, sessions)

\* -------------------------------------------------------- inputs of the store
Chars(w) ==
    CASE w = "" -> <<>>
      [] w = "code" -> <<"c", "o", "d", "e">>
      [] w = "Code " -> <<"C", "o", "d", "e", " ">>
      [] w = "cod" -> <<"c", "o", "d">>
      [] w = "core" -> <<"c", "o", "r", "e">>
      [] w = "mail" -> <<"m", "a", "i", "l">>
      [] w = "inference_failed" ->
             <<"i", "n", "f", "e", "r", "e", "n", "c", "e", "_",
               "f", "a", "i", "l", "e", "d">>

\* the sessions a caller saves: three ids, each before and after intent inference
SavedSessionPool ==
    { [id |-> Md5Hex12(SessionKey(t)), inferred_intent |-> Chars(w)] :
        t \in {At(0, 10, 0, 0, 0), At(0, 10, 10, 0, 0), At(0, 11, 0, 0, 0)},
        w \in {"", "code"} }

Batches == UNION { [1..n -> SavedSessionPool] : n \in 0..MaxBatch }

\* ---------------------------------------------------------------- the store
InitStore ==
    /\ day_file = <<>>
    /\ file_before = <<>>
    /\ last_batch = <<>>
    /\ last_saved = <<>>

\* the record most recently saved under each id, after one more batch
RECURSIVE Latest(_, _)
Latest(f, sessions) ==
    IF sessions = <<>> THEN f
    ELSE LET session == Head(sessions)
         IN Latest([x \in DOMAIN f \cup {session.id} |->
                       IF x = session.id THEN ModelDumpJson(session) ELSE f[x]],
                   Tail(sessions))

\* a call store.save_sessions(sessions, d)
CallSaveSessions(batch) ==
    /\ day_file' = SaveSessions(day_file, batch)
    /\ file_before' = day_file
    /\ last_batch' = batch
    /\ last_saved' = Latest(last_saved, batch)
    /\ UNCHANGED not_svars

NextStore == \E batch \in Batches : CallSaveSessions(batch)

\* ----------------------------------------------------- claims on the store
FileIds(file) == {file[i].id : i \in 1..Len(file)}

\* C5: after any sequence of save_sessions calls the day's file has at most one
\* record per id, the record of an id is the session most recently saved under
\* it, and the last call left every record it found in its position and, when
\* its id was not in the call, unchanged; saving a list again changes nothing.
C5_OneRecordPerId ==
    /\ \A i, j \in 1..Len(day_file) : i # j => day_file[i].id # day_file[j].id
    /\ FileIds(day_file) = DOMAIN last_saved
    /\ \A i \in 1..Len(day_file) : day_file[i] = last_saved[day_file[i].id]
    /\ Len(file_before) <= Len(day_file)
    /\ \A i \in 1..Len(file_before) :
           /\ day_file[i].id = file_before[i].id
           /\ file_before[i].id \notin FileIds(last_batch) =>
                  day_file[i] = file_before[i]
    /\ SaveSessions(day_file, last_batch) = day_file

C5_Witness ==
    /\ Len(day_file) = 3
    /\ Len(file_before) = 3
    /\ Len(last_batch) = 2
    /\ last_batch[1].id = last_batch[2].id
    /\ last_batch[1] # last_batch[2]
    /\ day_file # file_before
    /\ day_file[2] = last_batch[2]


\* ----------------------------------------------------------------- patterns.py
SIMILARITY_THRESHOLD == 55

INFERENCE_FAILED == Chars("inference_failed")

UpperCase == <<"A", "B", "C", "D", "E", "F", "G", "H", "I", "J", "K", "L", "M",
               "N", "O", "P", "Q", "R", "S", "T", "U", "V", "W", "X", "Y", "Z">>
LowerCase == <<"a", "b", "c", "d", "e", "f", "g", "h", "i", "j", "k", "l", "m",
               "n", "o", "p", "q", "r", "s", "t", "u", "v", "w", "x", "y", "z">>
Whitespace == {" ", "\t", "\n", "\r"}

\* str.lower(), on a string given as the sequence of its characters
Lower(str) ==
    [i \in 1..Len(str) |->
        IF \E k \in 1..26 : UpperCase[k] = str[i]
        THEN LowerCase[CHOOSE k \in 1..26 : UpperCase[k] = str[i]]
        ELSE str[i]]

\* str.strip()
Strip(str) ==
    LET keep == {i \in 1..Len(str) : str[i] \notin Whitespace}
    IN IF keep = {} THEN <<>>
       ELSE SubSeq(str, CHOOSE i \in keep : \A j \in keep : i <= j,
                        CHOOSE i \in keep : \A j \in keep : j <= i)

\* intent.lower().strip()
Clean(str) == Strip(Lower(str))

\* the length of the longest common run of a from i and b from j
RECURSIVE CommonRun(_, _, _, _)
CommonRun(a, b, i, j) ==
    IF i > Len(a) \/ j > Len(b) \/ a[i] # b[j] THEN 0
    ELSE 1 + CommonRun(a, b, i + 1, j + 1)

\* SequenceMatcher.find_longest_match over all of a and b (no junk: isjunk is
\* None and the strings are shorter than the 200 characters of autojunk): the
\* longest matching block, of those the one starting earliest in a, and of
\* those the one starting earliest in b.
LongestMatch(a, b) ==
    LET starts == (1..Len(a)) \X (1..Len(b))
        best == CHOOSE p \in starts :
                    \A q \in starts :
                        LET kp == CommonRun(a, b, p[1], p[2])
                            kq == CommonRun(a, b, q[1], q[2])
                        IN \/ kp > kq
                           \/ kp = kq /\ p[1] < q[1]
                           \/ kp = kq /\ p[1] = q[1] /\ p[2] <= q[2]
    IN [i |-> best[1], j |-> best[2], size |-> CommonRun(a, b, best[1], best[2])]

\* the sum of the sizes of SequenceMatcher.get_matching_blocks: the longest
\* block, then recursively the pieces to its left and to its right
RECURSIVE MatchedChars(_, _)
MatchedChars(a, b) ==
    IF a = <<>> \/ b = <<>> THEN 0
    ELSE LET blk == LongestMatch(a, b)
         IN IF blk.size = 0 THEN 0
            ELSE blk.size
                 + MatchedChars(SubSeq(a, 1, blk.i - 1), SubSeq(b, 1, blk.j - 1))
                 + MatchedChars(SubSeq(a, blk.i + blk.size, Len(a)),
                                SubSeq(b, blk.j + blk.size, Len(b)))

\* _intent_similarity, as the fraction <<numerator, denominator>>;
\* SequenceMatcher.ratio() is 2.0 * matches / (len(a) + len(b))
IntentSimilarity(a, b) ==
    IF a = <<>> \/ b = <<>> THEN <<0, 1>>
    ELSE LET a_clean == Clean(a)
             b_clean == Clean(b)
         IN IF a_clean = b_clean THEN <<1, 1>>
            ELSE <<2 * MatchedChars(a_clean, b_clean), Len(a_clean) + Len(b_clean)>>

\* comparisons of fractions with positive denominators
FracGreater(x, y) == x[1] * y[2] > y[1] * x[2]
FracAtLeast(x, y) == x[1] * y[2] >= y[1] * x[2]

\* _make_pattern_id: "pat_" + md5(intent.lower().strip())[:12]
MakePatternId(intent) == <<"pat", Md5Hex12(Clean(intent))>>

\* as IsAnalyzed, had only the empty intent been filtered out
IsAnalyzedNonEmpty(s) == s.inferred_intent # <<>>

\* the filter `s.inferred_intent and s.inferred_intent != "inference_failed"`
IsAnalyzed(s) == s.inferred_intent # <<>> /\ s.inferred_intent # INFERENCE_FAILED

\* as InsertByStartTime, had the sessions been left in the order given
InsertSessionAtEnd(sorted, s) == Append(sorted, s)

\* sorted(..., key=lambda s: s.start_time): stable
InsertByStartTime(sorted, s) ==
    LET n == Cardinality({i \in 1..Len(sorted) : sorted[i].start_time <= s.start_time})
    IN SubSeq(sorted, 1, n) \o <<s>> \o SubSeq(sorted, n + 1, Len(sorted))

RECURSIVE SortByStartTime(_)
SortByStartTime(ss) ==
    IF ss = <<>> THEN <<>>
    ELSE InsertByStartTime(SortByStartTime(SubSeq(ss, 1, Len(ss) - 1)), ss[Len(ss)])

\* as AlreadyAssigned, had the `assigned` test been left out
NeverAssigned(id, assigned) == FALSE

\* `if session.id in assigned: continue`
AlreadyAssigned(id, assigned) == id \in assigned

\* the loop `for cluster in clusters` of detect_patterns: the index of
\* best_cluster, 0 for None.  k is the cluster looked at, best the index and
\* best_sim the similarity of the best cluster so far; threshold is in hundredths.
RECURSIVE BestCluster(_, _, _, _, _, _)
BestCluster(session, clusters, threshold, k, best, best_sim) ==
    IF k > Len(clusters) THEN best
    ELSE LET sim == IntentSimilarity(session.inferred_intent,
                                     clusters[k][1].inferred_intent)
         IN IF FracGreater(sim, best_sim) /\ FracAtLeast(sim, <<threshold, 100>>)
            THEN BestCluster(session, clusters, threshold, k + 1, k, sim)
            ELSE BestCluster(session, clusters, threshold, k + 1, best, best_sim)

\* the loop `for session in sorted_sessions` of detect_patterns: the clusters
RECURSIVE AssignLoop(_, _, _, _, _)
AssignLoop(sorted, i, clusters, assigned, threshold) ==
    IF i > Len(sorted) THEN clusters
    ELSE LET session == sorted[i]
         IN IF AlreadyAssigned(session.id, assigned)
            THEN AssignLoop(sorted, i + 1, clusters, assigned, threshold)
            ELSE LET best == BestCluster(session, clusters, threshold, 1, 0, <<0, 1>>)
                     joined == IF best # 0
                               THEN [clusters EXCEPT ![best] = Append(@, session)]
                               ELSE Append(clusters, <<session>>)
                 IN AssignLoop(sorted, i + 1, joined,
                               assigned \cup {session.id}, threshold)

\* the greedy clustering of detect_patterns (lines 76 to 107)
IntentClusters(sessions, threshold) ==
    LET analyzed == SelectSeq(sessions, IsAnalyzed)
    IN IF analyzed = <<>> THEN <<>>
       ELSE AssignLoop(SortByStartTime(analyzed), 1, <<>>, {}, threshold)

\* round(num / den) to the nearest integer, ties to the even one
RoundHalfEven(num, den) ==
    LET q == num \div den
        r == num % den
    IN IF 2 * r > den THEN q + 1
       ELSE IF 2 * r < den THEN q
       ELSE IF q % 2 = 0 THEN q ELSE q + 1

\* _friction_score
FrictionScore(level) ==
    CASE level = "low" -> 0 [] level = "medium" -> 1
      [] level = "high" -> 2 [] level = "critical" -> 3 [] OTHER -> 0

\* Counter(xs).most_common(1)[0][0]: the first of the most frequent elements,
\* in order of first occurrence
MostCommon(xs) ==
    LET keys == Dedupe(xs)
        count(x) == Cardinality({i \in 1..Len(xs) : xs[i] = x})
        best == CHOOSE k \in 1..Len(keys) :
                    /\ \A j \in 1..Len(keys) : count(keys[j]) <= count(keys[k])
                    /\ \A j \in 1..(k - 1) : count(keys[j]) < count(keys[k])
    IN keys[best]

RECURSIVE Concat(_)
Concat(seqs) == IF seqs = <<>> THEN <<>> ELSE Head(seqs) \o Concat(Tail(seqs))

\* as TrendOf, had the band of "stable" been 0.4 wide on either side
TrendOfWiderBand(sorted_sessions) ==
    LET n == Len(sorted_sessions)
        mid == n \div 2
        rest == n - mid
        score(k) == FrictionScore(sorted_sessions[k].friction_level)
        first_sum == SumSeq([k \in 1..mid |-> score(k)])
        second_sum == SumSeq([k \in 1..rest |-> score(mid + k)])
        diff_num == second_sum * mid - first_sum * rest
    IN IF mid > 0 /\ n > 2
       THEN IF 10 * diff_num > 4 * mid * rest THEN "worsening"
            ELSE IF 10 * diff_num < -4 * mid * rest THEN "improving"
            ELSE "stable"
       ELSE "stable"

\* the trend branch of _build_pattern: diff > 0.3 is
\* 10 * (second_sum * mid - first_sum * rest) > 3 * mid * rest
TrendOf(sorted_sessions) ==
    LET n == Len(sorted_sessions)
        mid == n \div 2
        rest == n - mid
        score(k) == FrictionScore(sorted_sessions[k].friction_level)
        first_sum == SumSeq([k \in 1..mid |-> score(k)])
        second_sum == SumSeq([k \in 1..rest |-> score(mid + k)])
        diff_num == second_sum * mid - first_sum * rest
    IN IF mid > 0 /\ n > 2
       THEN IF 10 * diff_num > 3 * mid * rest THEN "worsening"
            ELSE IF 10 * diff_num < -3 * mid * rest THEN "improving"
            ELSE "stable"
       ELSE "stable"

\* _build_pattern; minutes are kept in tenths, as round(x, 1) leaves them
BuildPattern(intent, sessions) ==
    LET sorted_sessions == SortByStartTime(sessions)
        n == Len(sessions)
        total_minutes == SumSeq([k \in 1..n |-> sessions[k].total_duration_minutes])
        switches == SumSeq([k \in 1..n |-> sessions[k].context_switches])
        all_apps == Dedupe(Concat([k \in 1..n |-> sessions[k].apps_used]))
    IN [id |-> MakePatternId(intent),
        intent |-> intent,
        occurrences |-> n,
        first_seen |-> sorted_sessions[1].start_time,
        last_seen |-> sorted_sessions[n].start_time,
        avg_duration_minutes |-> RoundHalfEven(total_minutes, n),
        most_common_friction |-> MostCommon([k \in 1..n |-> sessions[k].friction_level]),
        avg_context_switches |-> RoundHalfEven(10 * switches, n),
        session_ids |-> [k \in 1..n |-> sessions[k].id],
        trend |-> TrendOf(sorted_sessions),
        total_time_invested_minutes |-> total_minutes,
        apps_involved |-> SubSeq(all_apps, 1, Min(10, Len(all_apps)))]

\* patterns.sort(key=lambda p: p.total_time_invested_minutes, reverse=True):
\* stable, patterns of equal key keep their order
InsertByTimeInvested(sorted, p) ==
    LET n == Cardinality({i \in 1..Len(sorted) :
                 sorted[i].total_time_invested_minutes >= p.total_time_invested_minutes})
    IN SubSeq(sorted, 1, n) \o <<p>> \o SubSeq(sorted, n + 1, Len(sorted))

RECURSIVE SortByTimeInvested(_)
SortByTimeInvested(ps) ==
    IF ps = <<>> THEN <<>>
    ELSE InsertByTimeInvested(SortByTimeInvested(SubSeq(ps, 1, Len(ps) - 1)), ps[Len(ps)])

\* detect_patterns; similarity_threshold is in hundredths
DetectPatterns(sessions, threshold, min_occ) ==
    LET clusters == IntentClusters(sessions, threshold)
        kept == SelectSeq(clusters, LAMBDA c : ~(Len(c) < min_occ))
    IN SortByTimeInvested([k \in 1..Len(kept) |->
                              BuildPattern(kept[k][1].inferred_intent, kept[k])])

\* ------------------------------------------- inputs of the pattern detector
Session(id, start, w, minutes, switches, level, apps) ==
    [id |-> id, start_time |-> start, inferred_intent |-> Chars(w),
     total_duration_minutes |-> 10 * minutes, context_switches |-> switches,
     friction_level |-> level, apps_used |-> apps]

\* sessions of several days: similar and dissimilar intents, two sessions that
\* start at the same instant, two that carry the same id, one whose inference
\* failed and one never analysed
SessionPool ==
    { Session("sess_d0_h9", At(0, 9, 0, 0, 0), "code", 30, 2, "low", <<"VSCode">>),
      Session("sess_d1_h9", At(1, 9, 0, 0, 0), "Code ", 45, 6, "high",
              <<"VSCode", "Chrome">>),
      Session("sess_d0_h9b", At(0, 9, 0, 0, 0), "cod", 20, 4, "critical", <<"Chrome">>),
      Session("sess_d2_h9", At(2, 9, 0, 0, 0), "mail", 60, 1, "medium", <<"Mail">>),
      Session("sess_d0_h9", At(2, 10, 0, 0, 0), "core", 30, 0, "low", <<"VSCode">>),
      Session("sess_d3_h9", At(3, 9, 0, 0, 0), "inference_failed", 15, 3, "high",
              <<"Chrome">>),
      Session("sess_d1_h10", At(1, 10, 0, 0, 0), "", 10, 0, "low", <<>>) }

ThresholdChoices == {0, SIMILARITY_THRESHOLD, 100}
MinOccurrencesChoices == {1, 2, 3}

\* ------------------------------------------------------ the pattern detector
InitPatterns ==
    /\ all_sessions = <<>>
    /\ similarity_threshold = SIMILARITY_THRESHOLD
    /\ min_occurrences = 2
    /\ patterns = <<>>
    /\ ppc = "collect"

\* the caller loads one more session, in any order of start times
LoadSession(s) ==
    /\ ppc = "collect"
    /\ Len(all_sessions) < MaxSessions
    /\ all_sessions' = Append(all_sessions, s)
    /\ UNCHANGED <<similarity_threshold, min_occurrences, patterns, ppc>>
    /\ UNCHANGED not_pvars

\* a call detect_patterns(all_sessions, t / 100, m)
CallDetectPatterns(t, m) ==
    /\ ppc = "collect"
    /\ similarity_threshold' = t
    /\ min_occurrences' = m
    /\ patterns' = DetectPatterns(all_sessions, t, m)
    /\ ppc' = "returned"
    /\ UNCHANGED all_sessions
    /\ UNCHANGED not_pvars

\* the caller starts over with another set of all_sessions
NewAnalysis ==
    /\ ppc = "returned"
    /\ all_sessions' = <<>>
    /\ similarity_threshold' = SIMILARITY_THRESHOLD
    /\ min_occurrences' = 2
    /\ patterns' = <<>>
    /\ ppc' = "collect"
    /\ UNCHANGED not_pvars

NextPatterns ==
    \/ \E s \in SessionPool : LoadSession(s)
    \/ \E t \in ThresholdChoices, m \in MinOccurrencesChoices : CallDetectPatterns(t, m)
    \/ NewAnalysis

\* ------------------------------------------- claims on the pattern detector
IdsOf(c) == [k \in 1..Len(c) |-> c[k].id]

\* the places (pattern, position) where an id stands in the returned patterns
PlacesOf(id, ps) ==
    {pl \in UNION {{<<k, j>> : j \in 1..Len(ps[k].session_ids)} : k \in 1..Len(ps)} :
        ps[pl[1]].session_ids[pl[2]] = id}

\* C8: the id of every input session stands in at most one place of the returned
\* patterns (one pattern, one position), for every similarity_threshold and
\* every input, also one that holds a session or an id twice.
C8_SessionInAtMostOnePattern ==
    ppc = "returned" =>
        \A s \in Range(all_sessions) : Cardinality(PlacesOf(s.id, patterns)) <= 1

C8_Witness ==
    /\ ppc = "returned"
    /\ \E i, j \in 1..Len(all_sessions) :
           /\ i < j
           /\ all_sessions[i] = all_sessions[j]
           /\ \E k \in 1..Len(patterns) :
                  /\ patterns[k].occurrences = 2
                  /\ Cardinality(PlacesOf(all_sessions[i].id, patterns)) = 1
                  /\ all_sessions[i].id \in Range(patterns[k].session_ids)

\* C9: every returned pattern has occurrences equal to the number of its
\* session_ids and at least min_occurrences; the patterns are built from exactly
\* the clusters of at least min_occurrences sessions, no cluster holds a session
\* whose intent is empty or "inference_failed", and the id of such a session is in
\* no pattern unless an analysed session carries the same id; when no cluster
\* reaches min_occurrences the result is the empty list.
C9_OccurrencesAndFilter ==
    ppc = "returned" =>
        LET clusters == IntentClusters(all_sessions, similarity_threshold)
            big == {k \in 1..Len(clusters) : Len(clusters[k]) >= min_occurrences}
        IN /\ \A k \in 1..Len(patterns) :
                  /\ patterns[k].occurrences = Len(patterns[k].session_ids)
                  /\ patterns[k].occurrences >= min_occurrences
                  /\ \E c \in big : patterns[k].session_ids = IdsOf(clusters[c])
           /\ Len(patterns) = Cardinality(big)
           /\ \A k \in 1..Len(clusters) : \A m \in Range(clusters[k]) :
                  m.inferred_intent # <<>> /\ m.inferred_intent # INFERENCE_FAILED
           /\ \A s \in Range(all_sessions) :
                  (/\ s.inferred_intent \in {<<>>, INFERENCE_FAILED}
                   /\ \A o \in Range(all_sessions) :
                          o.id = s.id => o.inferred_intent \in {<<>>, INFERENCE_FAILED})
                  => PlacesOf(s.id, patterns) = {}
           /\ big = {} => patterns = <<>>

C9_Witness ==
    /\ ppc = "returned"
    /\ min_occurrences = 2
    /\ \E s \in Range(all_sessions) : s.inferred_intent = INFERENCE_FAILED
    /\ Len(patterns) = 1
    /\ patterns[1].occurrences = 2

Perms(n) == {f \in [1..n -> 1..n] : \A i, j \in 1..n : f[i] = f[j] => i = j}

Permuted(seq, f) == [i \in 1..Len(seq) |-> seq[f[i]]]

\* the input sessions a pattern is made of: the analysed ones whose id it lists
MemberIndexes(p) ==
    {i \in 1..Len(all_sessions) :
        IsAnalyzed(all_sessions[i]) /\ all_sessions[i].id \in Range(p.session_ids)}

\* the member with the earliest start_time, the first passed of several
EarliestMember(p) ==
    CHOOSE i \in MemberIndexes(p) : \A j \in MemberIndexes(p) :
        \/ all_sessions[i].start_time < all_sessions[j].start_time
        \/ all_sessions[i].start_time = all_sessions[j].start_time /\ i <= j

IntentAndFirstSeen(ps) == {<<ps[k].intent, ps[k].first_seen>> : k \in 1..Len(ps)}

\* C10 as stated: a pattern's intent and first_seen are those of its member with
\* the earliest start_time, and they are the same for every order in which the
\* sessions are passed.
C10_OrderIndependent ==
    ppc = "returned" =>
        /\ \A k \in 1..Len(patterns) :
               /\ patterns[k].intent = all_sessions[EarliestMember(patterns[k])].inferred_intent
               /\ patterns[k].first_seen = all_sessions[EarliestMember(patterns[k])].start_time
        /\ \A f \in Perms(Len(all_sessions)) :
               IntentAndFirstSeen(DetectPatterns(Permuted(all_sessions, f),
                                                 similarity_threshold, min_occurrences))
                   = IntentAndFirstSeen(patterns)

DistinctStartTimes ==
    \A i, j \in 1..Len(all_sessions) :
        (/\ i # j /\ IsAnalyzed(all_sessions[i]) /\ IsAnalyzed(all_sessions[j]))
        => all_sessions[i].start_time # all_sessions[j].start_time

\* C10 as amended: a pattern's intent and first_seen are those of its member with
\* the earliest start_time, the first passed of several that start together; the
\* whole result is the same for every order of the input when the sessions with
\* an intent have pairwise distinct start times.
C10_EarliestMemberIntent ==
    ppc = "returned" =>
        /\ \A k \in 1..Len(patterns) :
               /\ patterns[k].intent = all_sessions[EarliestMember(patterns[k])].inferred_intent
               /\ patterns[k].first_seen = all_sessions[EarliestMember(patterns[k])].start_time
        /\ DistinctStartTimes =>
               \A f \in Perms(Len(all_sessions)) :
                   DetectPatterns(Permuted(all_sessions, f),
                                  similarity_threshold, min_occurrences) = patterns

C10_Witness ==
    /\ ppc = "returned"
    /\ DistinctStartTimes
    /\ Len(all_sessions) = 3
    /\ all_sessions[1].start_time > all_sessions[3].start_time
    /\ Len(patterns) = 1
    /\ patterns[1].occurrences = 3
    /\ patterns[1].intent = all_sessions[3].inferred_intent
    /\ patterns[1].intent # all_sessions[1].inferred_intent
    /\ patterns[1].first_seen = all_sessions[3].start_time

\* the sessions detect_patterns assigns, in the order it takes them: those with
\* an intent by start time, each id once
Processed(sessions) ==
    LET sorted == SortByStartTime(SelectSeq(sessions, IsAnalyzed))
        firsts == {i \in 1..Len(sorted) :
                      \A j \in 1..(i - 1) : sorted[j].id # sorted[i].id}
    IN [k \in 1..Cardinality(firsts) |->
           sorted[CHOOSE i \in firsts : Cardinality({j \in firsts : j <= i}) = k]]

\* C26: for every similarity_threshold, a session taken in ascending start-time
\* order joins the existing cluster whose first member's intent is the most
\* similar to its own among the clusters with similarity >= similarity_threshold,
\* the earliest-created one on a tie, and it starts a new cluster exactly when no
\* existing cluster reaches the threshold.
C26_JoinsBestOrStartsNew ==
    ppc = "returned" =>
        LET clusters == IntentClusters(all_sessions, similarity_threshold)
            order == Processed(all_sessions)
            PosOf(s) == CHOOSE i \in 1..Len(order) : order[i] = s
            Sim(s, k) == IntentSimilarity(s.inferred_intent,
                                          clusters[k][1].inferred_intent)
            Existing(i) == {k \in 1..Len(clusters) : PosOf(clusters[k][1]) < i}
            Reaching(i) == {k \in Existing(i) :
                               FracAtLeast(Sim(order[i], k), <<similarity_threshold, 100>>)}
        IN \A i \in 1..Len(order) :
               \E kk \in 1..Len(clusters) :
                   /\ order[i] \in Range(clusters[kk])
                   /\ IF Reaching(i) = {}
                      THEN clusters[kk][1] = order[i]
                      ELSE /\ kk \in Reaching(i)
                           /\ \A k \in Reaching(i) :
                                  /\ ~FracGreater(Sim(order[i], k), Sim(order[i], kk))
                                  /\ k < kk => FracGreater(Sim(order[i], kk),
                                                           Sim(order[i], k))

\* ------------------------------------------ patterns.py: friction trends

\* The calendar of date.isocalendar(), which compute_friction_trends calls on
\* each start_time.  A date is its proleptic Gregorian ordinal (1 = 0001-01-01).
IsLeap(year) == year % 4 = 0 /\ (year % 100 # 0 \/ year % 400 = 0)

DaysInMonth(year, month) ==
    IF month = 2 THEN (IF IsLeap(year) THEN 29 ELSE 28)
    ELSE IF month \in {4, 6, 9, 11} THEN 30 ELSE 31

DaysBeforeYear(year) ==
    (year - 1) * 365 + (year - 1) \div 4 - (year - 1) \div 100 + (year - 1) \div 400

RECURSIVE DaysBeforeMonth(_, _)
DaysBeforeMonth(year, month) ==
    IF month = 1 THEN 0
    ELSE DaysBeforeMonth(year, month - 1) + DaysInMonth(year, month - 1)

YmdToOrd(year, month, day) == DaysBeforeYear(year) + DaysBeforeMonth(year, month) + day

\* day 0 of the model's clock is 2026-02-26, a Thursday
EpochOrdinal == YmdToOrd(2026, 2, 26)

\* the date of a datetime
OrdinalOf(ts) == EpochOrdinal + ts \div DayTicks

YearOf(ord) ==
    CHOOSE y \in (ord \div 366)..(ord \div 365 + 1) :
        DaysBeforeYear(y) < ord /\ ord <= DaysBeforeYear(y + 1)

\* the Monday of ISO week 1: the week that holds the year's first Thursday
IsoWeek1Monday(year) ==
    LET firstday == YmdToOrd(year, 1, 1)
        firstweekday == (firstday + 6) % 7
        week1monday == firstday - firstweekday
    IN IF firstweekday > 3 THEN week1monday + 7 ELSE week1monday

\* isocalendar()[0:2]: the ISO year and the ISO week number
IsoCalendar(ord) ==
    LET year == YearOf(ord)
        week == (ord - IsoWeek1Monday(year)) \div 7
    IN IF week < 0
       THEN <<year - 1, (ord - IsoWeek1Monday(year - 1)) \div 7 + 1>>
       ELSE IF week >= 52 /\ ord >= IsoWeek1Monday(year + 1)
       THEN <<year + 1, 1>>
       ELSE <<year, week + 1>>

\* str(n) for n >= 0, as the sequence of its characters' code points
RECURSIVE Digits(_)
Digits(n) == IF n < 10 THEN <<48 + n>> ELSE Append(Digits(n \div 10), 48 + (n % 10))

\* f"{iso[0]}-W{iso[1]:02d}": '-' is 45, 'W' is 87
WeekLabel(iso) ==
    Digits(iso[1]) \o <<45, 87>> \o (IF iso[2] < 10 THEN <<48>> ELSE <<>>) \o Digits(iso[2])

WeekLabelOf(s) == WeekLabel(IsoCalendar(OrdinalOf(s.start_time)))

\* a <= b for two str, compared code point by code point
RECURSIVE StrLessEq(_, _)
StrLessEq(a, b) ==
    IF a = <<>> THEN TRUE
    ELSE IF b = <<>> THEN FALSE
    ELSE IF Head(a) # Head(b) THEN Head(a) < Head(b)
    ELSE StrLessEq(Tail(a), Tail(b))

\* the defaultdict `weeks` as its items(): one <<label, sessions>> per label,
\* labels in order of first occurrence, sessions in the order given
GroupByWeek(sessions) ==
    LET labels == Dedupe([i \in 1..Len(sessions) |-> WeekLabelOf(sessions[i])])
    IN [k \in 1..Len(labels) |->
            <<labels[k], SelectSeq(sessions, LAMBDA s : WeekLabelOf(s) = labels[k])>>]

\* sorted(weeks.items(), key=lambda kv: kv[0])
InsertByLabel(sorted, kv) ==
    LET n == Cardinality({i \in 1..Len(sorted) : StrLessEq(sorted[i][1], kv[1])})
    IN SubSeq(sorted, 1, n) \o <<kv>> \o SubSeq(sorted, n + 1, Len(sorted))

RECURSIVE SortByLabel(_)
SortByLabel(items) ==
    IF items = <<>> THEN <<>>
    ELSE InsertByLabel(SortByLabel(SubSeq(items, 1, Len(items) - 1)), items[Len(items)])

\* the slice seq[-n:]: its start index is -n, counted from the end when it is
\* negative and from the front otherwise (so -0 is the front)
LastSlice(seq, n) ==
    LET start == IF -n < 0 THEN Max(Len(seq) - n, 0) ELSE Min(-n, Len(seq))
    IN SubSeq(seq, start + 1, Len(seq))

\* as IsHighFriction, had HIGH been left out of the tuple
IsCriticalFriction(s) == s.friction_level = "critical"

\* s.friction_level in (FrictionLevel.HIGH, FrictionLevel.CRITICAL)
IsHighFriction(s) == s.friction_level \in {"high", "critical"}

\* [intent for intent, _ in Counter(xs).most_common(3)]: the distinct elements
\* by falling count, equal counts in order of first occurrence
TopThree(xs) ==
    LET keys == Dedupe(xs)
        count(x) == Cardinality({i \in 1..Len(xs) : xs[i] = x})
        rank(k) == Cardinality({j \in 1..Len(keys) :
                        \/ count(keys[j]) > count(keys[k])
                        \/ count(keys[j]) = count(keys[k]) /\ j < k})
    IN [r \in 1..Min(3, Len(keys)) |-> keys[CHOOSE k \in 1..Len(keys) : rank(k) = r - 1]]

\* round(high_friction_min / total_min, 3) if total_min > 0 else 0.0, in
\* thousandths
FrictionRatio(high_friction_min, total_min) ==
    IF total_min > 0 THEN RoundHalfEven(1000 * high_friction_min, total_min) ELSE 0

\* the FrictionTrend of one week; minutes and avg_switches_per_session are in
\* tenths (round(x, 1)), high_friction_ratio in thousandths
BuildTrend(week_label, week_sessions) ==
    LET n == Len(week_sessions)
        minutes(ss) == SumSeq([i \in 1..Len(ss) |-> ss[i].total_duration_minutes])
        total_min == minutes(week_sessions)
        high_friction_min == minutes(SelectSeq(week_sessions, IsHighFriction))
        total_switches == SumSeq([i \in 1..n |-> week_sessions[i].context_switches])
        friction == SelectSeq(week_sessions,
                        LAMBDA s : IsHighFriction(s) /\ s.inferred_intent # <<>>)
        sorted_s == SortByStartTime(week_sessions)
    IN [week_label |-> week_label,
        week_start |-> sorted_s[1].start_time,
        week_end |-> sorted_s[n].end_time,
        total_sessions |-> n,
        total_minutes |-> total_min,
        high_friction_minutes |-> high_friction_min,
        high_friction_ratio |-> FrictionRatio(high_friction_min, total_min),
        avg_switches_per_session |-> RoundHalfEven(10 * total_switches, n),
        top_friction_intents |->
            TopThree([i \in 1..Len(friction) |-> friction[i].inferred_intent])]

\* compute_friction_trends(sessions, num_weeks)
ComputeFrictionTrends(sessions, n_weeks) ==
    IF sessions = <<>> THEN <<>>
    ELSE LET sorted_weeks == LastSlice(SortByLabel(GroupByWeek(sessions)), n_weeks)
         IN [k \in 1..Len(sorted_weeks) |->
                 BuildTrend(sorted_weeks[k][1], sorted_weeks[k][2])]

\* ------------------------------------------ inputs of the trend aggregator
TrendSession(id, start, minutes, w, switches, level) ==
    [id |-> id, start_time |-> start, end_time |-> start + minutes * MinuteTicks,
     inferred_intent |-> Chars(w), total_duration_minutes |-> 10 * minutes,
     context_switches |-> switches, friction_level |-> level]

\* sessions of 2025-W52 (Sunday 2025-12-28), of 2026-W01 on both sides of the
\* new year (Monday 2025-12-29 and Thursday 2026-01-01), of 2026-W09 (three on
\* Thursday 2026-02-26, one of them of no duration and one that starts and ends
\* while another goes on), of 2026-W10 (Monday 2026-03-02) and of 2026-W53
\* (Friday 2027-01-01)
TrendSessionPool ==
    { TrendSession("t_w52", At(-60, 9, 0, 0, 0), 30, "mail", 1, "medium"),
      TrendSession("t_w01a", At(-59, 9, 0, 0, 0), 20, "code", 9, "high"),
      TrendSession("t_w01b", At(-56, 9, 0, 0, 0), 40, "", 2, "low"),
      TrendSession("t_w09a", At(0, 9, 0, 0, 0), 60, "code", 20, "high"),
      TrendSession("t_w09b", At(0, 14, 0, 0, 0), 0, "mail", 0, "critical"),
      TrendSession("t_w09c", At(0, 9, 30, 0, 0), 10, "code", 2, "low"),
      TrendSession("t_w10", At(4, 9, 0, 0, 0), 45, "core", 3, "critical"),
      TrendSession("t_w53", At(309, 9, 0, 0, 0), 15, "cod", 1, "low") }

DEFAULT_NUM_WEEKS == 4
NumWeeksChoices == {-1, 0, 1, 2, DEFAULT_NUM_WEEKS}

\* ------------------------------------------------------ the trend aggregator
InitTrends ==
    /\ trend_sessions = <<>>
    /\ num_weeks = DEFAULT_NUM_WEEKS
    /\ trends = <<>>
    /\ tpc = "collect"

\* the caller loads one more session, in any order
LoadTrendSession(s) ==
    /\ tpc = "collect"
    /\ Len(trend_sessions) < MaxSessions
    /\ trend_sessions' = Append(trend_sessions, s)
    /\ UNCHANGED <<num_weeks, trends, tpc>>
    /\ UNCHANGED not_tvars

\* a call compute_friction_trends(trend_sessions, n)
CallComputeFrictionTrends(n) ==
    /\ tpc = "collect"
    /\ num_weeks' = n
    /\ trends' = ComputeFrictionTrends(trend_sessions, n)
    /\ tpc' = "returned"
    /\ UNCHANGED trend_sessions
    /\ UNCHANGED not_tvars

\* the caller starts over with other sessions
NewTrendReport ==
    /\ tpc = "returned"
    /\ trend_sessions' = <<>>
    /\ num_weeks' = DEFAULT_NUM_WEEKS
    /\ trends' = <<>>
    /\ tpc' = "collect"
    /\ UNCHANGED not_tvars

NextTrends ==
    \/ \E s \in TrendSessionPool : LoadTrendSession(s)
    \/ \E n \in NumWeeksChoices : CallComputeFrictionTrends(n)
    \/ NewTrendReport

\* ------------------------------------------------- claims: friction trends

\* the ISO (year, week) a session starts in
IsoWeekOf(s) == IsoCalendar(OrdinalOf(s.start_time))

IsoWeeksOf(ss) == {IsoWeekOf(ss[i]) : i \in 1..Len(ss)}

IsoEarlier(v, w) == v[1] < w[1] \/ (v[1] = w[1] /\ v[2] < w[2])

\* the n most recent of the ISO weeks that hold a session
MostRecentWeeks(ss, n) ==
    {w \in IsoWeeksOf(ss) : Cardinality({v \in IsoWeeksOf(ss) : IsoEarlier(w, v)}) < n}

StartingIn(ss, w) == Cardinality({i \in 1..Len(ss) : IsoWeekOf(ss[i]) = w})

\* C11: for any num_weeks >= 0, compute_friction_trends returns at most
\* num_weeks trends, one for each of the num_weeks most recent ISO (year, week)
\* groups that hold a session, oldest first, each with total_sessions equal to
\* the number of input sessions that start in that ISO week; an empty input
\* gives an empty list.
C11_LastWeeksOldestFirst ==
    (tpc = "returned" /\ num_weeks >= 0) =>
        LET recent == MostRecentWeeks(trend_sessions, num_weeks)
        IN /\ Len(trends) <= num_weeks
           /\ Len(trends) = Cardinality(recent)
           /\ \A k \in 1..Len(trends) :
                  \E w \in recent :
                      /\ trends[k].week_label = WeekLabel(w)
                      /\ Cardinality({v \in recent : IsoEarlier(v, w)}) = k - 1
                      /\ trends[k].total_sessions = StartingIn(trend_sessions, w)
           /\ (trend_sessions = <<>> => trends = <<>>)

\* C11 for num_weeks >= 1: what the slice [-num_weeks:] does keep
C11_PositiveNumWeeks == num_weeks >= 1 => C11_LastWeeksOldestFirst

\* the input sessions of the week a trend is about
WeekSessionsOf(t) == SelectSeq(trend_sessions, LAMBDA s : WeekLabelOf(s) = t.week_label)

\* C12: every FrictionTrend computed from sessions of non-negative duration has
\* 0 <= high_friction_ratio <= 1 and high_friction_minutes <= total_minutes;
\* the ratio is exactly 0 when the week's total minutes are 0, and exactly 1
\* when they are positive and every session of the week is HIGH or CRITICAL.
C12_RatioBounds ==
    tpc = "returned" =>
        \A k \in 1..Len(trends) :
            LET t == trends[k]
                ws == WeekSessionsOf(t)
            IN /\ 0 <= t.high_friction_ratio /\ t.high_friction_ratio <= 1000
               /\ t.high_friction_minutes <= t.total_minutes
               /\ (t.total_minutes = 0 => t.high_friction_ratio = 0)
               /\ (/\ t.total_minutes > 0
                   /\ \A i \in 1..Len(ws) : ws[i].friction_level \in {"high", "critical"})
                      => t.high_friction_ratio = 1000

\* a call returned three trends: a week of no minutes, a week that is all
\* friction, and a week that is part friction
C12_Witness ==
    /\ tpc = "returned"
    /\ \A i \in 1..Len(trend_sessions) : trend_sessions[i].total_duration_minutes >= 0
    /\ \E k \in 1..Len(trends) :
           /\ trends[k].total_minutes = 0
           /\ trends[k].high_friction_ratio = 0
    /\ \E k \in 1..Len(trends) :
           /\ trends[k].total_sessions = 2
           /\ trends[k].high_friction_ratio > 0
           /\ trends[k].high_friction_ratio < 1000
           /\ trends[k].high_friction_minutes < trends[k].total_minutes

\* C28: for every FrictionTrend, week_start is the minimum start_time and
\* week_end the maximum end_time over the sessions of its ISO week, also when
\* sessions overlap or a session that started earlier ends later than the one
\* that started last.
C28_WeekSpanIsMinMax ==
    tpc = "returned" =>
        \A k \in 1..Len(trends) :
            LET week == Range(WeekSessionsOf(trends[k]))
            IN /\ \E s \in week : s.start_time = trends[k].week_start
               /\ \A s \in week : trends[k].week_start <= s.start_time
               /\ \E s \in week : s.end_time = trends[k].week_end
               /\ \A s \in week : s.end_time <= trends[k].week_end

\* ------------------------------------------------------------ measurement.py

NoOutcome == [status |-> "none"]

\* _make_outcome_id
MakeOutcomeId(proposal_id) == <<"out", Md5Hex12(proposal_id)>>

\* str.split("(")[0]: the text before the first "("
BeforeParen(str) ==
    LET parens == {i \in 1..Len(str) : str[i] = "("}
    IN IF parens = {} THEN str
       ELSE SubSeq(str, 1, (CHOOSE i \in parens : \A j \in parens : i <= j) - 1)

\* create_outcome(proposal, before_minutes_per_week), called at `now`;
\* minutes are in tenths; adopted_date is `datetime | None`: <<>> is None and
\* <<t>> the datetime t
CreateOutcomeRecord(proposal, before_minutes_per_week, now) ==
    [id |-> MakeOutcomeId(proposal.diagnosis_id),
     proposal_id |-> proposal.diagnosis_id,
     intent |-> Strip(BeforeParen(proposal.original_workflow)),
     adopted |-> TRUE,
     adopted_date |-> <<now>>,
     before_minutes_per_week |-> before_minutes_per_week,
     after_minutes_per_week |-> 0,
     actual_savings_minutes |-> 0,
     cumulative_savings_minutes |-> 0,
     weeks_tracked |-> 0,
     status |-> "measuring"]

\* the loop over recent_sessions: the minutes of the sessions that start at or
\* after the cutoff and whose intent is more than 0.5 similar to the outcome's
MatchingMinutes(o, sessions, cutoff) ==
    LET matching == SelectSeq(sessions, LAMBDA s :
                        /\ ~(s.start_time < cutoff)
                        /\ FracGreater(IntentSimilarity(s.inferred_intent, o.intent),
                                       <<1, 2>>))
    IN SumSeq([i \in 1..Len(matching) |-> matching[i].total_duration_minutes])

\* round(matching_minutes / (lookback_days / 7.0), 1) when lookback_days > 0,
\* else round(matching_minutes, 1); in tenths
WeeklyMinutes(matching_minutes, lookback) ==
    IF lookback > 0 THEN RoundHalfEven(7 * matching_minutes, lookback)
    ELSE matching_minutes

\* as NextWeeksTracked, had the increment been left out
SameWeeksTracked(weeks_tracked) == weeks_tracked

\* outcome.weeks_tracked += 1
NextWeeksTracked(weeks_tracked) == weeks_tracked + 1

\* as StatusAfter, had a measurement without savings waited for a third week
StatusAfterThreeWeeks(actual_savings_minutes, weeks_tracked) ==
    IF actual_savings_minutes > 0 THEN "adopted"
    ELSE IF weeks_tracked >= 3 /\ actual_savings_minutes <= 0 THEN "rejected"
    ELSE "measuring"

\* the status branch of measure_outcome
StatusAfter(actual_savings_minutes, weeks_tracked) ==
    IF actual_savings_minutes > 0 THEN "adopted"
    ELSE IF weeks_tracked >= 2 /\ actual_savings_minutes <= 0 THEN "rejected"
    ELSE "measuring"

\* as MeasureOutcomeRecord, had cumulative_savings_minutes been computed before
\* the increment of weeks_tracked
MeasureOutcomeEarlyTotal(o, sessions, lookback, now) ==
    LET cutoff == now - lookback * DayTicks
        after == WeeklyMinutes(MatchingMinutes(o, sessions, cutoff), lookback)
        savings == o.before_minutes_per_week - after
        weeks == NextWeeksTracked(o.weeks_tracked)
    IN [o EXCEPT !.after_minutes_per_week = after,
                 !.actual_savings_minutes = savings,
                 !.weeks_tracked = weeks,
                 !.cumulative_savings_minutes = savings * o.weeks_tracked,
                 !.status = StatusAfter(savings, weeks)]

\* measure_outcome(o, sessions, lookback), called at `now`: the fields of o
\* after the call (the function assigns them on o itself and returns o)
MeasureOutcomeRecord(o, sessions, lookback, now) ==
    LET cutoff == now - lookback * DayTicks
        after == WeeklyMinutes(MatchingMinutes(o, sessions, cutoff), lookback)
        savings == o.before_minutes_per_week - after
        weeks == NextWeeksTracked(o.weeks_tracked)
    IN [o EXCEPT !.after_minutes_per_week = after,
                 !.actual_savings_minutes = savings,
                 !.weeks_tracked = weeks,
                 !.cumulative_savings_minutes = savings * weeks,
                 !.status = StatusAfter(savings, weeks)]

\* --------------------------------------------------- inputs of measurement
MaxMeasurements == 3

Proposal(diagnosis_id, original_workflow) ==
    [diagnosis_id |-> diagnosis_id, original_workflow |-> original_workflow]

ProposalPool ==
    { Proposal("diag_code", Chars("code")),
      Proposal("diag_mail", Chars("mail") \o <<" ", "(", "4", "x", ")">>) }

BeforeMinutesChoices == {0, 300, 500}

\* the instants the calls are made at: day 3 at noon, day 7 at 09:00 (seven
\* days to the second after the first session of SessionPool) and day 9
NowChoices == {At(3, 12, 0, 0, 0), At(7, 9, 0, 0, 0), At(9, 9, 0, 0, 0)}

DEFAULT_LOOKBACK_DAYS == 7
LookbackChoices == {0, DEFAULT_LOOKBACK_DAYS, 2 * DEFAULT_LOOKBACK_DAYS}

\* the session lists a measurement is given
RecentSessionsChoices ==
    LET code0 == Session("sess_d0_h9", At(0, 9, 0, 0, 0), "code", 30, 2, "low", <<"VSCode">>)
        code1 == Session("sess_d1_h9", At(1, 9, 0, 0, 0), "Code ", 46, 6, "high",
                         <<"VSCode", "Chrome">>)
        cod0 == Session("sess_d0_h9b", At(0, 9, 0, 0, 0), "cod", 20, 4, "critical",
                        <<"Chrome">>)
        mail2 == Session("sess_d2_h9", At(2, 9, 0, 0, 0), "mail", 60, 1, "medium", <<"Mail">>)
        none1 == Session("sess_d1_h10", At(1, 10, 0, 0, 0), "", 10, 0, "low", <<>>)
    IN { <<>>, <<code0>>, <<mail2>>, <<code0, code1>>, <<mail2, none1, cod0>>,
         <<code1, mail2, code0>> }

\* a ReplacementOutcome built by hand or read back from the store, in any
\* status and with any count of weeks
LoadedOutcomes ==
    { [CreateOutcomeRecord(p, 300, At(0, 9, 0, 0, 0))
           EXCEPT !.status = st, !.weeks_tracked = w] :
        p \in ProposalPool, st \in {"pending", "measuring", "adopted", "rejected"},
        w \in {0, 2} }

\* --------------------------------------------------------- ROI measurement
InitOutcome ==
    /\ outcome = NoOutcome
    /\ outcome_origin = "none"
    /\ outcome_before = NoOutcome
    /\ recent_sessions = <<>>
    /\ lookback_days = DEFAULT_LOOKBACK_DAYS
    /\ measured_at = 0
    /\ last_op = "none"
    /\ measure_calls = 0

\* a call create_outcome(proposal, before) at `now`
CallCreateOutcome(proposal, before, now) ==
    /\ last_op = "none"
    /\ outcome' = CreateOutcomeRecord(proposal, before, now)
    /\ outcome_origin' = "created"
    /\ measured_at' = now
    /\ last_op' = "create"
    /\ measure_calls' = 0
    /\ UNCHANGED <<outcome_before, recent_sessions, lookback_days>>
    /\ UNCHANGED not_ovars

\* the caller builds an outcome by hand or reads it from the store
LoadOutcome(o) ==
    /\ last_op = "none"
    /\ outcome' = o
    /\ outcome_origin' = "loaded"
    /\ last_op' = "load"
    /\ measure_calls' = 0
    /\ UNCHANGED <<outcome_before, recent_sessions, lookback_days, measured_at>>
    /\ UNCHANGED not_ovars

\* the caller reads the sessions it will pass to measure_outcome
FetchRecentSessions(ss) ==
    /\ last_op # "none"
    /\ recent_sessions # ss
    /\ recent_sessions' = ss
    /\ UNCHANGED <<outcome, outcome_origin, outcome_before, lookback_days, measured_at,
                   last_op, measure_calls>>
    /\ UNCHANGED not_ovars

\* a call measure_outcome(outcome, recent_sessions, lookback) at `now`: the
\* function assigns the new fields on the object passed in and only reads the
\* session list
CallMeasureOutcome(lookback, now) ==
    /\ last_op # "none"
    /\ outcome.weeks_tracked < MaxMeasurements
    /\ outcome' = MeasureOutcomeRecord(outcome, recent_sessions, lookback, now)
    /\ outcome_before' = outcome
    /\ UNCHANGED recent_sessions
    /\ lookback_days' = lookback
    /\ measured_at' = now
    /\ last_op' = "measure"
    /\ measure_calls' = measure_calls + 1
    /\ UNCHANGED outcome_origin
    /\ UNCHANGED not_ovars

\* the caller drops the outcome and starts over
ForgetOutcome ==
    /\ last_op # "none"
    /\ outcome' = NoOutcome
    /\ outcome_origin' = "none"
    /\ outcome_before' = NoOutcome
    /\ recent_sessions' = <<>>
    /\ lookback_days' = DEFAULT_LOOKBACK_DAYS
    /\ measured_at' = 0
    /\ last_op' = "none"
    /\ measure_calls' = 0
    /\ UNCHANGED not_ovars

NextOutcome ==
    \/ \E p \in ProposalPool, b \in BeforeMinutesChoices, now \in NowChoices :
           CallCreateOutcome(p, b, now)
    \/ \E o \in LoadedOutcomes : LoadOutcome(o)
    \/ \E ss \in RecentSessionsChoices : FetchRecentSessions(ss)
    \/ \E d \in LookbackChoices, now \in NowChoices : CallMeasureOutcome(d, now)
    \/ ForgetOutcome

\* ------------------------------------------------- claims: ROI measurement

\* C13: after measure_outcome returns, the outcome's status is "adopted" if
\* actual_savings_minutes > 0, "rejected" if actual_savings_minutes <= 0 and
\* the incremented weeks_tracked is >= 2, and "measuring" otherwise, whatever
\* the status was before the call.
C13_StatusAfterMeasure ==
    last_op = "measure" =>
        /\ outcome.weeks_tracked = outcome_before.weeks_tracked + 1
        /\ outcome.actual_savings_minutes > 0 => outcome.status = "adopted"
        /\ (outcome.actual_savings_minutes <= 0 /\ outcome.weeks_tracked >= 2)
               => outcome.status = "rejected"
        /\ (outcome.actual_savings_minutes <= 0 /\ outcome.weeks_tracked < 2)
               => outcome.status = "measuring"

\* a measurement without savings, the second of an outcome that was "adopted"
\* before the call, made it "rejected"
C13_Witness ==
    /\ last_op = "measure"
    /\ outcome_before.status = "adopted"
    /\ outcome.actual_savings_minutes <= 0
    /\ outcome.weeks_tracked = 2
    /\ outcome.status = "rejected"

\* C14: for an outcome made by create_outcome (status "measuring",
\* weeks_tracked 0) and any sequence of measure_outcome calls, once the status
\* is "adopted" no later call sets it back to "measuring": from "adopted" the
\* status after the next call is "adopted" or "rejected".
C14_AdoptedNeverBackToMeasuring ==
    [][(/\ outcome_origin = "created"
        /\ outcome.status = "adopted"
        /\ last_op' = "measure")
          => outcome'.status \in {"adopted", "rejected"}]_vars

\* an outcome made by create_outcome was "adopted" and the next measurement
\* found no savings
C14_Witness ==
    /\ outcome_origin = "created"
    /\ last_op = "measure"
    /\ outcome_before.status = "adopted"
    /\ outcome.actual_savings_minutes <= 0
    /\ outcome.status = "rejected"

\* C29: for an outcome made by create_outcome and any sequence of
\* measure_outcome calls, after at least one call: weeks_tracked is the number
\* of calls; "adopted" implies actual_savings_minutes > 0; "rejected" implies
\* actual_savings_minutes <= 0 and weeks_tracked >= 2; "measuring" implies
\* weeks_tracked = 1 and actual_savings_minutes <= 0; and
\* cumulative_savings_minutes is actual_savings_minutes * weeks_tracked.
C29_OutcomeInvariants ==
    (outcome_origin = "created" /\ measure_calls >= 1) =>
        /\ outcome.weeks_tracked = measure_calls
        /\ outcome.status \in {"adopted", "rejected", "measuring"}
        /\ outcome.status = "adopted" => outcome.actual_savings_minutes > 0
        /\ outcome.status = "rejected" =>
               outcome.actual_savings_minutes <= 0 /\ outcome.weeks_tracked >= 2
        /\ outcome.status = "measuring" =>
               outcome.weeks_tracked = 1 /\ outcome.actual_savings_minutes <= 0
        /\ outcome.cumulative_savings_minutes =
               outcome.actual_savings_minutes * outcome.weeks_tracked

\* the third measurement of an outcome made by create_outcome found savings
\* again, after a second one that had made it "rejected"
C29_Witness ==
    /\ outcome_origin = "created"
    /\ measure_calls = 3
    /\ outcome_before.status = "rejected"
    /\ outcome.status = "adopted"
    /\ outcome.weeks_tracked = 3
    /\ outcome.cumulative_savings_minutes = 3 * outcome.actual_savings_minutes
    /\ outcome.cumulative_savings_minutes > 0

\* ------------------------------------------- daemon.py: should_measure

\* as ExpectedMeasurements, had the monthly branch dropped the four weekly
\* measurements
ExpectedMonthlyOnly(age_days) ==
    IF age_days <= 30 THEN age_days \div 7 ELSE (age_days - 30) \div 30

\* the expected count of measurements of an outcome that is age_days old
ExpectedMeasurements(age_days) ==
    IF age_days <= 30 THEN age_days \div 7 ELSE 4 + (age_days - 30) \div 30

\* (now.date() - adopted.date()).days: the difference of the calendar days
AgeDays(adopted, now) == OrdinalOf(now) - OrdinalOf(adopted)

\* should_measure(o, now)
ShouldMeasure(o, now) ==
    IF o.adopted_date = <<>> THEN FALSE
    ELSE LET age_days == AgeDays(o.adopted_date[1], now)
         IN IF age_days < 7 THEN FALSE
            ELSE o.weeks_tracked < ExpectedMeasurements(age_days)

\* ------------------------------------------- inputs of should_measure
MaxAgeDays == 92

\* outcomes adopted on day 0 in the morning or shortly before midnight, or
\* never (adopted_date None), measured any number of times
GateOutcomes ==
    { [CreateOutcomeRecord(Proposal("diag_code", Chars("code")), 300, 0)
           EXCEPT !.adopted_date = d, !.weeks_tracked = w] :
        d \in {<<>>, <<At(0, 9, 0, 0, 0)>>, <<At(0, 23, 30, 0, 0)>>},
        w \in 0..(2 * MaxMeasurements + 1) }

\* the instants should_measure is asked at: half past midnight and noon of the
\* day before adoption and of every day up to MaxAgeDays later
GateNowChoices ==
    {At(d, 0, 30, 0, 0) : d \in -1..MaxAgeDays} \cup {At(d, 12, 0, 0, 0) : d \in -1..MaxAgeDays}

NoGateCall == [outcome |-> NoOutcome, now |-> 0, result |-> FALSE]

InitGate == gate_call = NoGateCall

\* a call should_measure(o, now)
CallShouldMeasure(o, now) ==
    /\ gate_call = NoGateCall
    /\ gate_call' = [outcome |-> o, now |-> now, result |-> ShouldMeasure(o, now)]
    /\ UNCHANGED not_gvars

\* the caller has used the result
GateReturned ==
    /\ gate_call # NoGateCall
    /\ gate_call' = NoGateCall
    /\ UNCHANGED not_gvars

NextGate ==
    \/ \E o \in GateOutcomes, now \in GateNowChoices : CallShouldMeasure(o, now)
    \/ GateReturned

\* ------------------------------------------------ claims: should_measure

\* C15: should_measure(outcome, now) is False when adopted_date is missing or
\* the age in whole days (the days between the two calendar dates) is below 7;
\* otherwise it is True exactly when weeks_tracked < expected, with
\* expected = age_days // 7 for age_days <= 30 and 4 + (age_days - 30) // 30
\* for age_days > 30; the expected count never decreases as age_days grows.
C15_MeasureCadence ==
    gate_call.outcome # NoOutcome =>
        LET o == gate_call.outcome
            age_days == gate_call.now \div DayTicks - o.adopted_date[1] \div DayTicks
            expected == IF age_days <= 30 THEN age_days \div 7
                        ELSE 4 + (age_days - 30) \div 30
        IN IF o.adopted_date = <<>> THEN gate_call.result = FALSE
           ELSE IF age_days < 7 THEN gate_call.result = FALSE
           ELSE /\ gate_call.result = (o.weeks_tracked < expected)
                /\ \A younger \in 7..age_days :
                       \/ gate_call.result
                       \/ ~ShouldMeasure(o, gate_call.now - (age_days - younger) * DayTicks)

\* an outcome adopted at 23:30 is due at 00:30 seven calendar days later
C15_Witness ==
    /\ gate_call.outcome # NoOutcome
    /\ gate_call.outcome.adopted_date = <<At(0, 23, 30, 0, 0)>>
    /\ gate_call.now = At(7, 0, 30, 0, 0)
    /\ gate_call.outcome.weeks_tracked = 0
    /\ gate_call.result = TRUE

\* ------------------------------------------- daemon.py: next_fire_time

\* d.weekday(): Monday is 0 and Sunday is 6
Weekday(ord) == (ord + 6) % 7

\* `weekdays_only and d.weekday() >= 5`
DaySkipped(weekdays_only, ord) == weekdays_only /\ Weekday(ord) >= 5

\* as Later, had the slot at `now` itself been accepted
LaterOrNow(dt, now) == dt >= now

\* dt > now
Later(dt, now) == dt > now

\* sorted(times); a clock time is its number of ticks since midnight
InsertTime(sorted, t) ==
    LET n == Cardinality({i \in 1..Len(sorted) : sorted[i] <= t})
    IN SubSeq(sorted, 1, n) \o <<t>> \o SubSeq(sorted, n + 1, Len(sorted))

RECURSIVE SortTimes(_)
SortTimes(times) ==
    IF times = <<>> THEN <<>>
    ELSE InsertTime(SortTimes(SubSeq(times, 1, Len(times) - 1)), times[Len(times)])

\* the inner loop: the first datetime.combine(d, t), t in sorted order, that is
\* later than now, as <<dt>>; <<>> when there is none
FirstLater(sorted_times, midnight, now) ==
    LET hits == {i \in 1..Len(sorted_times) : Later(midnight + sorted_times[i], now)}
    IN IF hits = {} THEN <<>>
       ELSE <<midnight + sorted_times[CHOOSE i \in hits : \A j \in hits : i <= j]>>

\* as DayOffsets, had the scan stopped after three days
DayOffsetsShort == 0..2

\* range(8)
DayOffsets == 0..7

\* the outer loop from day_offset on; `scanned` counts the days looked at
RECURSIVE ScanDays(_, _, _, _, _)
ScanDays(times, weekdays_only, now, day_offset, scanned) ==
    IF day_offset \notin DayOffsets
    THEN [raised |-> TRUE, value |-> <<>>, days_scanned |-> scanned]
    ELSE LET day == now \div DayTicks + day_offset
             hit == FirstLater(SortTimes(times), day * DayTicks, now)
         IN IF DaySkipped(weekdays_only, EpochOrdinal + day)
            THEN ScanDays(times, weekdays_only, now, day_offset + 1, scanned + 1)
            ELSE IF hit # <<>>
            THEN [raised |-> FALSE, value |-> hit, days_scanned |-> scanned + 1]
            ELSE ScanDays(times, weekdays_only, now, day_offset + 1, scanned + 1)

\* next_fire_time(times, weekdays_only, now): the datetime returned, as
\* <<dt>>, or raised = TRUE for the RuntimeError
NextFireTime(times, weekdays_only, now) == ScanDays(times, weekdays_only, now, 0, 0)

\* ------------------------------------------- inputs of next_fire_time
MaxTimes == 2

\* midnight, 08:30, 13:00, 18:00 and the last tick of the day
ClockTimes ==
    {At(0, 0, 0, 0, 0), At(0, 8, 30, 0, 0), At(0, 13, 0, 0, 0), At(0, 18, 0, 0, 0),
     At(0, 23, 59, 59, SecondTicks - 1)}

\* the lists of clock times: empty, in any order, with repeats
TimeLists == UNION { [1..n -> ClockTimes] : n \in 0..MaxTimes }

\* Wednesday 2026-02-25 to Tuesday 2026-03-03, at a slot, between slots and at
\* the first and last tick of the day
FireNowChoices ==
    { At(d, 0, 0, 0, 0) + c :
        d \in -1..5,
        c \in ClockTimes \cup {At(0, 12, 0, 0, 0), At(0, 18, 30, 0, 0)} }

NoFireCall ==
    [called |-> FALSE, times |-> <<>>, weekdays_only |-> FALSE, now |-> 0,
     raised |-> FALSE, value |-> <<>>, days_scanned |-> 0]

InitFire == fire_call = NoFireCall

\* a call next_fire_time(times, weekdays_only, now)
CallNextFireTime(times, weekdays_only, now) ==
    /\ ~fire_call.called
    /\ fire_call' = [called |-> TRUE, times |-> times, weekdays_only |-> weekdays_only,
                     now |-> now] @@ NextFireTime(times, weekdays_only, now)
    /\ UNCHANGED not_fvars

\* the caller has used the result, or handled the error
FireReturned ==
    /\ fire_call.called
    /\ fire_call' = NoFireCall
    /\ UNCHANGED not_fvars

NextFire ==
    \/ \E times \in TimeLists, weekdays_only \in BOOLEAN, now \in FireNowChoices :
           CallNextFireTime(times, weekdays_only, now)
    \/ FireReturned

\* ------------------------------------------------ claims: next_fire_time

\* a slot: the clock time t on the day with index d
SlotAt(d, t) == d * DayTicks + t

\* the day with index d may fire: any day, or Monday to Friday
AllowedDay(d, weekdays_only) == ~weekdays_only \/ (EpochOrdinal + d + 6) % 7 \in 0..4

\* C16: for any non-empty list of clock times, next_fire_time returns the
\* earliest instant strictly later than now whose clock time is in the list and
\* whose day is allowed (Monday to Friday when weekdays_only, any day
\* otherwise): the result is never equal to or before now, and no allowed slot
\* lies strictly between now and the result.
C16_EarliestAllowedSlot ==
    (fire_call.called /\ fire_call.times # <<>>) =>
        /\ ~fire_call.raised
        /\ fire_call.value # <<>>
        /\ LET result == fire_call.value[1]
               now == fire_call.now
           IN /\ result > now
              /\ result % DayTicks \in Range(fire_call.times)
              /\ AllowedDay(result \div DayTicks, fire_call.weekdays_only)
              /\ \A d \in (now \div DayTicks)..(result \div DayTicks) :
                     \A i \in 1..Len(fire_call.times) :
                         (/\ AllowedDay(d, fire_call.weekdays_only)
                          /\ SlotAt(d, fire_call.times[i]) > now)
                             => SlotAt(d, fire_call.times[i]) >= result

\* asked on Friday 2026-02-27 at 18:00 sharp for <<18:00, 13:00>> on weekdays
\* only, the call returned Monday 13:00
C16_Witness ==
    /\ fire_call.called
    /\ fire_call.times = <<At(0, 18, 0, 0, 0), At(0, 13, 0, 0, 0)>>
    /\ fire_call.weekdays_only
    /\ fire_call.now = At(1, 18, 0, 0, 0)
    /\ fire_call.value = <<At(4, 13, 0, 0, 0)>>

\* C17: next_fire_time always terminates after scanning at most 8 days: it
\* raises RuntimeError when the list of clock times is empty and never raises
\* when the list is not empty, for any now and either value of weekdays_only.
C17_RaisesOnlyWhenEmpty ==
    fire_call.called =>
        /\ fire_call.days_scanned <= 8
        /\ fire_call.raised <=> fire_call.times = <<>>

\* an empty list on weekdays only raised after the eighth day
C17_Witness ==
    /\ fire_call.called
    /\ fire_call.times = <<>>
    /\ fire_call.weekdays_only
    /\ fire_call.raised
    /\ fire_call.days_scanned = 8

\* ------------------------------------------ the four core functions together

\* One caller uses the core functions one after the other: they share no
\* state, so a chain of calls to one of them starts with the others at rest.
CoreCluster == InitPatterns /\ InitTrends /\ InitOutcome /\ NextCluster

CorePatterns == InitCluster /\ InitTrends /\ InitOutcome /\ NextPatterns

CoreTrends == InitCluster /\ InitPatterns /\ InitOutcome /\ NextTrends

CoreOutcome == InitCluster /\ InitPatterns /\ InitTrends /\ NextOutcome

NextCore == CoreCluster \/ CorePatterns \/ CoreTrends \/ CoreOutcome

\* ------------------------------------------------- claims: inputs left alone

\* the step is a call of cluster_into_sessions, detect_patterns,
\* compute_friction_trends or measure_outcome
ClusterCalled == cpc = "collect" /\ cpc' = "returned"

PatternsCalled == ppc = "collect" /\ ppc' = "returned"

TrendsCalled == tpc = "collect" /\ tpc' = "returned"

MeasureCalled == outcome # NoOutcome /\ outcome_before # outcome /\ outcome_before' = outcome

\* C18: cluster_into_sessions, detect_patterns, compute_friction_trends and
\* measure_outcome never mutate their inputs: after each call the event
\* sequence, the session sequence, every session's fields and the outcome
\* record passed in are equal to what they were before the call.
C18_NoInputMutated ==
    [][/\ ClusterCalled => events' = events
       /\ PatternsCalled => all_sessions' = all_sessions
       /\ TrendsCalled => trend_sessions' = trend_sessions
       /\ MeasureCalled => (recent_sessions' = recent_sessions /\ outcome' = outcome)]_vars

\* C18 as amended: the three inference functions leave their inputs as they
\* were and measure_outcome leaves the session sequence as it was; the outcome
\* record passed to measure_outcome is updated in place: one more week
\* tracked, the new after/savings/cumulative minutes and status, and its
\* other fields as before.
C18_OnlyOutcomeUpdated ==
    [][/\ ClusterCalled => events' = events
       /\ PatternsCalled => all_sessions' = all_sessions
       /\ TrendsCalled => trend_sessions' = trend_sessions
       /\ MeasureCalled =>
              /\ recent_sessions' = recent_sessions
              /\ outcome'.weeks_tracked = outcome.weeks_tracked + 1
              /\ outcome' = [outcome EXCEPT
                     !.after_minutes_per_week = outcome'.after_minutes_per_week,
                     !.actual_savings_minutes = outcome'.actual_savings_minutes,
                     !.cumulative_savings_minutes = outcome'.cumulative_savings_minutes,
                     !.weeks_tracked = outcome'.weeks_tracked,
                     !.status = outcome'.status]]_vars

\* a measurement over a list of three sessions changed the outcome passed in
C18_Witness ==
    /\ last_op = "measure"
    /\ Len(recent_sessions) = 3
    /\ outcome # outcome_before
    /\ outcome.id = outcome_before.id
    /\ outcome.after_minutes_per_week > 0
    /\ outcome.status # outcome_before.status

\* ------------------------------------- daemon.py: the capture and analyze loops
MaxDaemonDays == 2

\* the days the daemon is followed over
DaemonDays == 0..(MaxDaemonDays - 1)

CAPTURE_TIMES == <<At(0, 12, 55, 0, 0), At(0, 17, 55, 0, 0), At(0, 22, 55, 0, 0)>>
ANALYZE_TIMES == <<At(0, 13, 0, 0, 0), At(0, 18, 0, 0, 0), At(0, 23, 0, 0, 0)>>

\* timedelta(hours=4) of run_capture_job, in hours
CAPTURE_HOURS == 4

\* timedelta(days=30) of run_propose_job, in days
PRUNE_DAYS == 30

HourTicks == 60 * MinuteTicks

\* d[k] = v on a dict
SetItem(d, k, v) == [x \in DOMAIN d \cup {k} |-> IF x = k THEN v ELSE d[x]]

EmptyDict == [x \in {} |-> 0]

\* the fields WorkflowSession(...) leaves at their defaults when _build_session
\* constructs a session; confidence is kept in hundredths
SessionDefaults ==
    [confidence |-> 0, friction_details |-> "", user_validated |-> FALSE, user_label |-> ""]

WorkflowSession(built) ==
    [f \in DOMAIN built \cup DOMAIN SessionDefaults |->
        IF f \in DOMAIN built THEN built[f] ELSE SessionDefaults[f]]

\* JobState(): last_run and next_run are None, last_status is "pending"
DefaultJobState ==
    [last_run |-> <<>>, next_run |-> <<>>, last_status |-> "pending", error_message |-> ""]

\* DaemonState(), but for started_at, which no loop reads or changes
NewDaemonState ==
    [jobs |-> EmptyDict, proposed_session_ids |-> EmptyDict,
     screenpipe_healthy |-> TRUE, screenpipe_last_checked |-> <<>>]

\* a `datetime | None` field written to and read from JSON
DumpOptional(x) == IF x = <<>> THEN <<>> ELSE <<IsoFormat(x[1])>>

ValidateOptional(x) == IF x = <<>> THEN <<>> ELSE <<FromIsoFormat(x[1])>>

\* state.model_dump_json(): proposed_session_ids holds strings already
StateDumpJson(state) ==
    [state EXCEPT !.jobs =
        [j \in DOMAIN @ |-> [@[j] EXCEPT !.last_run = DumpOptional(@),
                                         !.next_run = DumpOptional(@)]],
                  !.screenpipe_last_checked = DumpOptional(@)]

\* DaemonState.model_validate_json
StateValidateJson(json) ==
    [json EXCEPT !.jobs =
        [j \in DOMAIN @ |-> [@[j] EXCEPT !.last_run = ValidateOptional(@),
                                         !.next_run = ValidateOptional(@)]],
                 !.screenpipe_last_checked = ValidateOptional(@)]

\* read_state: the state on disk, or a fresh default when the file is missing
ReadState(file) == IF file = <<>> THEN NewDaemonState ELSE StateValidateJson(file[1])

\* write_state: the content of the file afterwards
WriteState(state) == <<StateDumpJson(state)>>

\* the head of a loop's `while True` body:
\*   state = read_state(state_path)
\*   state.jobs.setdefault(name, JobState()).next_run = target
\*   write_state(state, state_path)
AnnounceNextRun(file, name, target) ==
    LET state == ReadState(file)
        job == IF name \in DOMAIN state.jobs THEN state.jobs[name] ELSE DefaultJobState
    IN WriteState([state EXCEPT
                      !.jobs = SetItem(@, name, [job EXCEPT !.next_run = <<target>>])])

\* state.jobs[name] = JobState(last_run=now, last_status=status, next_run=next)
RecordJob(state, name, now, status, next) ==
    [state EXCEPT !.jobs = SetItem(@, name, [last_run |-> <<now>>, next_run |-> <<next>>,
                                            last_status |-> status, error_message |-> ""])]

\* should_propose(session, proposed_session_ids)
ShouldPropose(session, proposed_session_ids) ==
    IF session.friction_level \notin {"high", "critical"} THEN FALSE
    ELSE IF session.inferred_intent = <<>> THEN FALSE
    ELSE IF session.id \in DOMAIN proposed_session_ids THEN FALSE
    ELSE TRUE

\* `for s in new_sessions: state.proposed_session_ids[s.id] = now_iso`
MarkProposed(proposed_session_ids, new_sessions, now) ==
    LET ids == {new_sessions[i].id : i \in 1..Len(new_sessions)}
    IN [x \in DOMAIN proposed_session_ids \cup ids |->
           IF x \in ids THEN IsoFormat(now) ELSE proposed_session_ids[x]]

\* `ts >= cutoff` on two ISO strings of the same format: they compare as the
\* datetimes they stand for
IsoNotBefore(ts, cutoff) == FromIsoFormat(ts) >= FromIsoFormat(cutoff)

\* {sid: ts for sid, ts in proposed_session_ids.items() if ts >= cutoff}
PruneProposed(proposed_session_ids, now) ==
    LET cutoff == IsoFormat(now - PRUNE_DAYS * DayTicks)
        kept == {sid \in DOMAIN proposed_session_ids :
                    IsoNotBefore(proposed_session_ids[sid], cutoff)}
    IN [sid \in kept |-> proposed_session_ids[sid]]

\* run_propose_job: the DaemonState object it was handed, after the call
RunProposeJob(new_sessions, state, now) ==
    IF new_sessions = <<>> THEN state
    ELSE [state EXCEPT !.proposed_session_ids =
             PruneProposed(MarkProposed(@, new_sessions, now), now)]

\* what the notify(...) of run_propose_job adds to the count of notifications
\* each session has been part of
CountNotified(counts, new_sessions) ==
    LET ids == {new_sessions[i].id : i \in 1..Len(new_sessions)}
    IN [x \in DOMAIN counts \cup ids |->
           (IF x \in DOMAIN counts THEN counts[x] ELSE 0) + (IF x \in ids THEN 1 ELSE 0)]

\* `not s.inferred_intent or s.inferred_intent == "inference_failed"`
NeedsAnalysis(s) == s.inferred_intent = <<>> \/ s.inferred_intent = INFERENCE_FAILED

\* infer_intent: with a reply of the LLM that parses ("ok") the session gets
\* the reply's intent, confidence and friction points; on any exception
\* ("failed") it gets "inference_failed" and confidence 0.0
InferIntent(session, llm) ==
    IF llm = "ok"
    THEN [session EXCEPT !.inferred_intent = Chars("code"),
                         !.confidence = 90,
                         !.friction_details = "waiting on builds"]
    ELSE [session EXCEPT !.inferred_intent = INFERENCE_FAILED, !.confidence = 0]

\* run_analyze_job on the file of today: the session list it returns and the
\* file it leaves
RunAnalyzeJob(file, llm) ==
    LET sessions == [i \in 1..Len(file) |-> ModelValidate(file[i])]
        to_analyze == SelectSeq(sessions, NeedsAnalysis)
        updated == [i \in 1..Len(sessions) |->
                       IF NeedsAnalysis(sessions[i]) THEN InferIntent(sessions[i], llm)
                       ELSE sessions[i]]
    IN IF to_analyze = <<>> \/ llm = "no_api_key"
       THEN [sessions |-> sessions, file |-> file]
       ELSE [sessions |-> updated, file |-> SaveSessions(file, updated)]

\* ScreenpipeAdapter.read_events(since): the recorded events from `since` on,
\* by timestamp
RECURSIVE EventsInOrder(_)
EventsInOrder(evs) ==
    IF evs = {} THEN <<>>
    ELSE LET e == CHOOSE x \in evs : \A y \in evs : x.timestamp <= y.timestamp
         IN <<e>> \o EventsInOrder(evs \ {e})

ReadEvents(log, since, now) ==
    EventsInOrder({e \in log : since <= e.timestamp /\ e.timestamp <= now})

\* the body shared by run_capture_job (hours = 4), handle_capture and the
\* capture command: cluster the events of the last `hours` hours and save the
\* sessions to the file of today
RunCaptureJob(file, log, now, hours) ==
    LET evs == ReadEvents(log, now - hours * HourTicks, now)
        sessions == ClusterIntoSessions(evs, DEFAULT_GAP_MINUTES, MIN_SESSION_EVENTS)
    IN [events |-> Len(evs),
        file |-> IF evs = <<>> THEN file
                 ELSE SaveSessions(file, [i \in 1..Len(sessions) |->
                                             WorkflowSession(sessions[i])])]

\* date.today()
Today(now) == now \div DayTicks

\* -------------------------------------------------------- inputs of the daemon
\* what the user does on the two days: one session of high friction in the
\* morning of day 0, the same and a calm one in the afternoon, one of critical
\* friction in the afternoon and one on the next morning, or nothing
Workdays ==
    { { Event(At(0, 10, 0, 0, 0), "VSCode", 0), Event(At(0, 10, 3, 0, 0), "Chrome", 0) },
      { Event(At(0, 10, 0, 0, 0), "VSCode", 0), Event(At(0, 10, 3, 0, 0), "Chrome", 0),
        Event(At(0, 14, 0, 0, 0), "VSCode", 0), Event(At(0, 14, 0, 30, 0), "VSCode", 0) },
      { Event(At(0, 16, 0, 0, 0), "VSCode", 0), Event(At(0, 16, 0, 30, 0), "Chrome", 0),
        Event(At(1, 10, 0, 0, 0), "VSCode", 0), Event(At(1, 10, 3, 0, 0), "Chrome", 0) },
      {} }

StartChoices == {At(0, 9, 0, 0, 0), At(0, 15, 0, 0, 0)}

LlmChoices == {"ok", "failed", "no_api_key"}

\* --hours of the capture command (default 24) and of handle_capture (default 8)
HoursChoices == {CAPTURE_HOURS, 8, 24}

\* ------------------------------------------------------------------ the daemon
InitDaemon ==
    /\ screen_log = {}
    /\ dclock = 0
    /\ capture_target = 0
    /\ analyze_target = 0
    /\ sessions_dir = [d \in DaemonDays |-> <<>>]
    /\ state_file = <<>>
    /\ notified = EmptyDict
    /\ last_job = "stopped"

\* run_daemon starts the loops at `start`; each loop computes its first target
\* and writes it to the state file
StartDaemon(log, start) ==
    /\ last_job = "stopped"
    /\ LET ct == NextFireTime(CAPTURE_TIMES, FALSE, start).value[1]
           at == NextFireTime(ANALYZE_TIMES, FALSE, start).value[1]
       IN /\ capture_target' = ct
          /\ analyze_target' = at
          /\ state_file' = AnnounceNextRun(AnnounceNextRun(state_file, "capture", ct),
                                           "analyze", at)
    /\ screen_log' = log
    /\ dclock' = start
    /\ last_job' = "start"
    /\ UNCHANGED <<sessions_dir, notified>>
    /\ UNCHANGED not_dvars

\* capture_loop from the end of its sleep to the start of the next one
CaptureCycle ==
    /\ last_job # "stopped"
    /\ capture_target < analyze_target
    /\ Today(capture_target) \in DaemonDays
    /\ LET now == capture_target
           job == RunCaptureJob(sessions_dir[Today(now)], screen_log, now, CAPTURE_HOURS)
           next == NextFireTime(CAPTURE_TIMES, FALSE, now).value[1]
           state == RecordJob(ReadState(state_file), "capture", now,
                              IF job.events > 0 THEN "ok" ELSE "skipped", next)
       IN /\ sessions_dir' = [sessions_dir EXCEPT ![Today(now)] = job.file]
          /\ state_file' = AnnounceNextRun(WriteState(state), "capture", next)
          /\ capture_target' = next
          /\ dclock' = now
    /\ last_job' = "capture"
    /\ UNCHANGED <<screen_log, analyze_target, notified>>
    /\ UNCHANGED not_dvars

\* `state = read_state(state_path)   # re-read after propose may have updated`:
\* the state object analyze_loop goes on with after the propose step
ProposedStateToWrite(in_memory, file) == ReadState(file)

\* analyze_loop from the end of its sleep to the start of the next one
AnalyzeCycle(llm) ==
    /\ last_job # "stopped"
    /\ analyze_target < capture_target
    /\ Today(analyze_target) \in DaemonDays
    /\ LET now == analyze_target
           state == ReadState(state_file)
           job == RunAnalyzeJob(sessions_dir[Today(now)], llm)
           Warrants(s) == ShouldPropose(s, state.proposed_session_ids)
           to_propose == SelectSeq(job.sessions, Warrants)
           proposed == RunProposeJob(to_propose, state, now)
           next == NextFireTime(ANALYZE_TIMES, FALSE, now).value[1]
           written == RecordJob(ProposedStateToWrite(proposed, state_file), "analyze",
                                now, "ok", next)
       IN /\ sessions_dir' = [sessions_dir EXCEPT ![Today(now)] = job.file]
          /\ notified' = CountNotified(notified, to_propose)
          /\ state_file' = AnnounceNextRun(WriteState(written), "analyze", next)
          /\ analyze_target' = next
          /\ dclock' = now
    /\ last_job' = "analyze"
    /\ UNCHANGED <<screen_log, capture_target>>
    /\ UNCHANGED not_dvars

\* the user runs `workflowx capture --hours h`, or an MCP client calls
\* handle_capture(h), while the daemon sleeps
CaptureOnDemand(hours) ==
    /\ last_job # "stopped"
    /\ sessions_dir' =
           [sessions_dir EXCEPT ![Today(dclock)] =
               RunCaptureJob(sessions_dir[Today(dclock)], screen_log, dclock, hours).file]
    /\ last_job' = "capture_on_demand"
    /\ UNCHANGED <<screen_log, dclock, capture_target, analyze_target, state_file, notified>>
    /\ UNCHANGED not_dvars

NextDaemon ==
    \/ \E log \in Workdays, start \in StartChoices : StartDaemon(log, start)
    \/ CaptureCycle
    \/ \E llm \in LlmChoices : AnalyzeCycle(llm)
    \/ \E hours \in HoursChoices : CaptureOnDemand(hours)

\* ----------------------------------------------------- claims on the daemon
\* C19: across the analyze cycles of the daemon a session is part of a propose
\* notification at most once (no entry of proposed_session_ids reaches the age
\* of 30 days within the days followed, so none is pruned).
C19_NotifiedAtMostOnce ==
    \A id \in DOMAIN notified : notified[id] <= 1

AnalysisFields ==
    {"inferred_intent", "confidence", "friction_details", "user_validated", "user_label"}

HasAnalysis(record) ==
    record.inferred_intent # <<>> \/ record.user_validated \/ record.user_label # ""

\* C20: a capture run, scheduled or on demand, leaves inferred_intent,
\* confidence, friction_details, user_validated and user_label of every stored
\* session unchanged that has an inferred intent or a user validation.
C20_CaptureKeepsAnalysis ==
    [][last_job' \in {"capture", "capture_on_demand"} =>
          \A d \in DaemonDays : \A i \in 1..Len(sessions_dir[d]) :
              HasAnalysis(sessions_dir[d][i]) =>
                  /\ i <= Len(sessions_dir'[d])
                  /\ sessions_dir'[d][i].id = sessions_dir[d][i].id
                  /\ \A f \in AnalysisFields :
                         sessions_dir'[d][i][f] = sessions_dir[d][i][f]]_vars


\* ----------------------------------- daemon.py: the five loops and the state file
MaxHealthChecks == 2

MEASURE_TIMES == <<At(0, 7, 0, 0, 0)>>
BRIEF_TIMES == <<At(0, 8, 30, 0, 0)>>
HEALTH_INTERVAL_SECONDS == 300

\* the loops _daemon_async gathers, in its order
Loops == {"health", "capture", "analyze", "measure", "brief"}

\* next_fire_time(<the loop's times>, weekdays_only=<the loop's flag>), at `now`
LoopFireTime(loop, now) ==
    CASE loop = "capture" -> NextFireTime(CAPTURE_TIMES, FALSE, now).value[1]
      [] loop = "analyze" -> NextFireTime(ANALYZE_TIMES, FALSE, now).value[1]
      [] loop = "measure" -> NextFireTime(MEASURE_TIMES, FALSE, now).value[1]
      [] loop = "brief" -> NextFireTime(BRIEF_TIMES, TRUE, now).value[1]

\* the `except Exception` branch of a loop:
\* state.jobs[name] = JobState(last_run=now, last_status="error", error_message=str(e))
RecordJobError(state, name, now) ==
    [state EXCEPT !.jobs = SetItem(@, name, [last_run |-> <<now>>, next_run |-> <<>>,
                                            last_status |-> "error",
                                            error_message |-> "error"])]

\* the end of a scheduled loop's body, from the state object it holds: record
\* the job under the loop's name ("ok", "skipped" or, from the except branch,
\* "error"), write the file, and at the head of the next round announce the
\* next run; no await lies between these statements
FinishRound(state, loop, now, status) ==
    LET next == LoopFireTime(loop, now)
        done == IF status = "error" THEN RecordJobError(state, loop, now)
                ELSE RecordJob(state, loop, now, status, next)
    IN AnnounceNextRun(WriteState(done), loop, next)

\* as StateAfterJob: the state read before the job was awaited
StateBeforeJob(local, file) == local

\* the state object a scheduled loop records its job in: it was read from the
\* file after the last await of the round (capture_loop, measure_loop and
\* brief_loop read it before a job that never suspends; analyze_loop, whose
\* job awaits the LLM, reads it again after the job)
StateAfterJob(local, file) == ReadState(file)

\* the body of health_loop after its sleep; run_health_job returns True,
\* returns False, or raises something it does not catch itself
HealthRound(file, now, result) ==
    LET state == ReadState(file)
        checked == [state EXCEPT !.screenpipe_healthy = (result = "healthy"),
                                 !.screenpipe_last_checked = <<now>>]
    IN IF result = "raised" THEN WriteState(RecordJobError(state, "health", now))
       ELSE WriteState(RecordJob(checked, "health", now,
                                 IF result = "healthy" THEN "ok" ELSE "error",
                                 now + HEALTH_INTERVAL_SECONDS * SecondTicks))

\* ----------------------------------------------------------- inputs of the loops
\* the daemon starts a few minutes before a capture and an analyze slot, before
\* the measure slot, or before the brief slot of a weekday
LoopStartChoices == {At(0, 12, 52, 0, 0), At(0, 6, 57, 0, 0), At(0, 8, 27, 0, 0)}

HealthResults == {"healthy", "unhealthy", "raised"}

JobResults == {"ok", "skipped", "error"}

\* ------------------------------------------------------------------- the loops
InitLoops ==
    /\ loop_file = <<>>
    /\ loop_pc = [l \in Loops |-> "stopped"]
    /\ loop_target = [l \in Loops |-> 0]
    /\ loop_clock = 0
    /\ analyze_local = NewDaemonState
    /\ health_checks = 0
    /\ last_writer = "none"

\* _daemon_async: each loop runs to its first sleep; the scheduled loops
\* announce their first run on the way
StartLoops(start) ==
    /\ \A l \in Loops : loop_pc[l] = "stopped"
    /\ loop_clock' = start
    /\ loop_target' = [l \in Loops |->
                          IF l = "health" THEN start + HEALTH_INTERVAL_SECONDS * SecondTicks
                          ELSE LoopFireTime(l, start)]
    /\ loop_file' =
           AnnounceNextRun(
               AnnounceNextRun(
                   AnnounceNextRun(
                       AnnounceNextRun(WriteState(ReadState(loop_file)),
                                       "capture", LoopFireTime("capture", start)),
                       "analyze", LoopFireTime("analyze", start)),
                   "measure", LoopFireTime("measure", start)),
               "brief", LoopFireTime("brief", start))
    /\ loop_pc' = [l \in Loops |-> "sleep"]
    /\ last_writer' = "start"
    /\ UNCHANGED <<analyze_local, health_checks>>
    /\ UNCHANGED not_lvars

\* the sleep of `loop` is the next to end
SleepEnds(loop) ==
    /\ loop_pc[loop] = "sleep"
    /\ \A k \in Loops : loop_pc[k] = "sleep" => loop_target[loop] <= loop_target[k]

\* datetime.now() when the sleep of `loop` has ended
WakeTime(loop) == Max(loop_clock, loop_target[loop])

\* one round of health_loop
HealthWakes(result) ==
    /\ SleepEnds("health")
    /\ health_checks < MaxHealthChecks
    /\ loop_clock' = WakeTime("health")
    /\ loop_file' = HealthRound(loop_file, loop_clock', result)
    /\ loop_target' = [loop_target EXCEPT
                          !["health"] = loop_clock' + HEALTH_INTERVAL_SECONDS * SecondTicks]
    /\ health_checks' = health_checks + 1
    /\ last_writer' = "health"
    /\ UNCHANGED <<loop_pc, analyze_local>>
    /\ UNCHANGED not_lvars

\* one round of capture_loop, measure_loop or brief_loop: their jobs await
\* nothing, so the round runs from the end of one sleep to the next sleep
ScheduledWakes(loop, result) ==
    /\ loop \in {"capture", "measure", "brief"}
    /\ SleepEnds(loop)
    /\ loop = "brief" => result # "skipped"
    /\ loop_clock' = WakeTime(loop)
    /\ loop_file' = FinishRound(StateAfterJob(ReadState(loop_file), loop_file),
                                loop, loop_clock', result)
    /\ loop_target' = [loop_target EXCEPT ![loop] = LoopFireTime(loop, loop_clock')]
    /\ last_writer' = loop
    /\ UNCHANGED <<loop_pc, analyze_local, health_checks>>
    /\ UNCHANGED not_lvars

\* analyze_loop wakes, reads the state and starts run_analyze_job, which
\* awaits the answer of the LLM for a session
AnalyzeWakes ==
    /\ SleepEnds("analyze")
    /\ loop_clock' = WakeTime("analyze")
    /\ analyze_local' = ReadState(loop_file)
    /\ loop_pc' = [loop_pc EXCEPT !["analyze"] = "llm"]
    /\ UNCHANGED <<loop_file, loop_target, health_checks, last_writer>>
    /\ UNCHANGED not_lvars

\* the LLM has answered (or run_analyze_job had nothing to await): the rest
\* of the round of analyze_loop
AnalyzeResumes(result) ==
    /\ loop_pc["analyze"] = "llm"
    /\ result # "skipped"
    /\ loop_file' = FinishRound(StateAfterJob(analyze_local, loop_file),
                                "analyze", loop_clock, result)
    /\ loop_target' = [loop_target EXCEPT !["analyze"] = LoopFireTime("analyze", loop_clock)]
    /\ loop_pc' = [loop_pc EXCEPT !["analyze"] = "sleep"]
    /\ last_writer' = "analyze"
    /\ UNCHANGED <<loop_clock, analyze_local, health_checks>>
    /\ UNCHANGED not_lvars

NextLoops ==
    \/ \E start \in LoopStartChoices : StartLoops(start)
    \/ \E result \in HealthResults : HealthWakes(result)
    \/ \E loop \in Loops, result \in JobResults : ScheduledWakes(loop, result)
    \/ AnalyzeWakes
    \/ \E result \in JobResults : AnalyzeResumes(result)

\* ------------------------------------------------------- claims on the loops
LoopJobs(file) == IF file = <<>> THEN EmptyDict ELSE file[1].jobs

HealthFields(file) ==
    IF file = <<>> THEN <<TRUE, <<>> >>
    ELSE <<file[1].screenpipe_healthy, file[1].screenpipe_last_checked>>

\* C21: in every interleaving of the five loops a write of the state file
\* changes no job entry but the writing loop's own, and the health fields
\* only when health_loop writes: what one loop has written is never lost or
\* reverted by the write of another.
C21_OnlyOwnEntryWritten ==
    [][loop_file' # loop_file /\ last_writer' \in Loops =>
          /\ \A j \in DOMAIN LoopJobs(loop_file) :
                 j # last_writer' =>
                     /\ j \in DOMAIN LoopJobs(loop_file')
                     /\ LoopJobs(loop_file')[j] = LoopJobs(loop_file)[j]
          /\ last_writer' # "health" => HealthFields(loop_file') = HealthFields(loop_file)
          /\ loop_file'[1].proposed_session_ids = loop_file[1].proposed_session_ids]_vars

\* analyze_loop writes after health_loop wrote while the LLM call was awaited
C21_Witness ==
    /\ last_writer = "analyze"
    /\ loop_pc["analyze"] = "sleep"
    /\ "health" \in DOMAIN LoopJobs(loop_file)
    /\ \/ "health" \notin DOMAIN analyze_local.jobs
       \/ analyze_local.jobs["health"].last_run # <<loop_clock>>
    /\ loop_file[1].jobs["analyze"].last_status = "ok"
    /\ loop_file[1].jobs["health"].last_run = <<IsoFormat(loop_clock)>>


\* --------------------------------------------------- claims on the denoiser
\* the indexes of the buckets that hold a qualifying event
NonEmptyBuckets(evs) ==
    {BucketIndex(evs[i], evs[1].timestamp) : i \in {j \in 1..Len(evs) : Qualifies(evs[j])}}

WinnerOfBucket(evs, b) == BucketWinner(BucketEvents(evs, b))

\* the non-empty buckets whose winner differs from that of the next non-empty one
SwitchingBuckets(evs) ==
    LET S == NonEmptyBuckets(evs)
    IN {b \in S : \E n \in S : /\ n > b
                               /\ \A x \in S : x > b => n <= x
                               /\ WinnerOfBucket(evs, b) # WinnerOfBucket(evs, n)}

\* every qualifying event is at least FOCUS_WINDOW_SECONDS from every other
OwnBuckets(evs) ==
    \A i, j \in 1..Len(evs) :
        (i < j /\ Qualifies(evs[i]) /\ Qualifies(evs[j])) =>
            evs[j].timestamp - evs[i].timestamp >= FOCUS_WINDOW_SECONDS * SecondTicks

\* the consecutive qualifying events with different app names
AppChanges(evs) ==
    LET q == SelectSeq(evs, Qualifies)
    IN Cardinality({k \in 1..(Len(q) - 1) : q[k].app_name # q[k + 1].app_name})

\* C22: a session's context_switches is the number of non-empty buckets whose
\* winner differs from the winner of the next non-empty bucket (empty buckets
\* neither count nor separate), and when every qualifying event has a bucket
\* of its own it is the number of consecutive app-name changes.
C22_SwitchesBetweenWinners ==
    cpc = "returned" =>
        \A s \in Range(clustered) :
            /\ s.context_switches = Cardinality(SwitchingBuckets(s.events))
            /\ OwnBuckets(s.events) => s.context_switches = AppChanges(s.events)

C22_Witness ==
    /\ cpc = "returned"
    /\ \E s \in Range(clustered) :
           /\ Len(s.events) = 3
           /\ OwnBuckets(s.events)
           /\ NonEmptyBuckets(s.events) = {0, 1, 10}
           /\ s.context_switches = 2


\* ------------------------------------ clusterer.py: _count_focus_switches alone
MaxFocusEvents == 3

\* lengths of trimmed OCR text: none, 600 and 1000 characters
OcrChoices == {0, 600, 1000}

\* the events of a session, as _build_session hands them over: two apps on
\* screen at the start and 20 and 40 seconds later, with ambient audio and an
\* event without an app name among them
FocusPool ==
    { Event(At(0, 10, 0, s, 0), app, len) :
        s \in {0, 20, 40}, app \in {"VSCode", "Chrome"}, len \in OcrChoices }
    \cup { Event(At(0, 10, 0, s, 0), "audio", 0) : s \in {0, 20, 40} }
    \cup { Event(At(0, 10, 0, 0, 0), "", 0) }

InitDenoiser ==
    /\ focus_events = <<>>
    /\ focus_timeline = <<>>
    /\ focus_result = <<0, <<>> >>
    /\ fpc = "collect"

\* one more event of the session, in timestamp order
NextSessionEvent(e) ==
    /\ fpc = "collect"
    /\ Len(focus_events) < MaxFocusEvents
    /\ focus_events # <<>> => focus_events[Len(focus_events)].timestamp <= e.timestamp
    /\ focus_events' = Append(focus_events, e)
    /\ UNCHANGED <<focus_timeline, focus_result, fpc>>
    /\ UNCHANGED not_nvars

\* a call _count_focus_switches(events)
CallCountFocusSwitches ==
    /\ fpc = "collect"
    /\ focus_timeline' = IF focus_events = <<>> THEN <<>> ELSE FocusTimeline(focus_events)
    /\ focus_result' = CountFocusSwitches(focus_events)
    /\ fpc' = "returned"
    /\ UNCHANGED focus_events
    /\ UNCHANGED not_nvars

NewSessionEvents ==
    /\ fpc = "returned"
    /\ focus_events' = <<>>
    /\ focus_timeline' = <<>>
    /\ focus_result' = <<0, <<>> >>
    /\ fpc' = "collect"
    /\ UNCHANGED not_nvars

NextDenoiser ==
    \/ \E e \in FocusPool : NextSessionEvent(e)
    \/ CallCountFocusSwitches
    \/ NewSessionEvents

\* --------------------------------------- claims on _count_focus_switches alone
\* the instant ts lies in bucket b of the list
TimeInBucket(evs, ts, b) ==
    /\ ts - evs[1].timestamp >= b * FOCUS_WINDOW_SECONDS * SecondTicks
    /\ ts - evs[1].timestamp < (b + 1) * FOCUS_WINDOW_SECONDS * SecondTicks

\* the positions of the qualifying events of bucket b
InBucket(evs, b) ==
    {i \in 1..Len(evs) : Qualifies(evs[i]) /\ TimeInBucket(evs, evs[i].timestamp, b)}

\* min(len // 200 + 1, 5), as a table
WeightOfLength(len) ==
    IF len < 200 THEN 1 ELSE IF len < 400 THEN 2 ELSE IF len < 600 THEN 3
    ELSE IF len < 800 THEN 4 ELSE 5

\* the sum of the weights of the events of `app` in bucket b
AppWeight(evs, b, app) ==
    SumSeq([i \in 1..Len(evs) |->
               IF i \in InBucket(evs, b) /\ evs[i].app_name = app
               THEN WeightOfLength(evs[i].ocr_len) ELSE 0])

\* the position of the first event of `app` in bucket b
FirstOf(evs, b, app) ==
    CHOOSE i \in InBucket(evs, b) :
        /\ evs[i].app_name = app
        /\ \A j \in InBucket(evs, b) : evs[j].app_name = app => i <= j

BucketApps(evs, b) == {evs[i].app_name : i \in InBucket(evs, b)}

\* the k-th non-empty bucket
KthBucket(evs, k) == Ascending(NonEmptyBuckets(evs))[k]

\* C23: the winner of every non-empty bucket is an app of the bucket with the
\* highest sum of weights min(len // 200 + 1, 5), and among the apps with that
\* sum the one whose first event in the bucket comes first.
C23_WinnerByWeightThenFirst ==
    fpc = "returned" =>
        /\ Len(focus_timeline) = Cardinality(NonEmptyBuckets(focus_events))
        /\ \A k \in 1..Len(focus_timeline) :
               LET b == KthBucket(focus_events, k)
                   w == focus_timeline[k]
               IN /\ w \in BucketApps(focus_events, b)
                  /\ \A a \in BucketApps(focus_events, b) :
                         /\ AppWeight(focus_events, b, a) <= AppWeight(focus_events, b, w)
                         /\ (a # w /\ AppWeight(focus_events, b, a)
                                          = AppWeight(focus_events, b, w)) =>
                                FirstOf(focus_events, b, w) < FirstOf(focus_events, b, a)

\* a capped weight ties with a sum, and the app seen first wins
C23_Witness ==
    /\ fpc = "returned"
    /\ Len(focus_events) = 3
    /\ focus_timeline = <<"Chrome">>
    /\ focus_events[1].app_name = "Chrome"
    /\ focus_events[2].app_name = "VSCode"
    /\ focus_events[2].ocr_len = 1000
    /\ AppWeight(focus_events, 0, "Chrome") = 5

\* C24: events with an empty app name or the app name "audio" have no
\* influence: the result is the one for the list without them.
C24_AudioHasNoInfluence ==
    fpc = "returned" =>
        focus_result = CountFocusSwitches(SelectSeq(focus_events, Qualifies))

\* `evs` with e put in at position p
InsertAt(evs, p, e) == SubSeq(evs, 1, p - 1) \o <<e>> \o SubSeq(evs, p, Len(evs))

\* the positions at which e keeps the list in timestamp order
OrderedPositions(evs, e) ==
    {p \in 1..(Len(evs) + 1) :
        /\ p > 1 => evs[p - 1].timestamp <= e.timestamp
        /\ p <= Len(evs) => e.timestamp <= evs[p].timestamp}

\* C25: the winner of a bucket is still its winner after one more event of
\* that app is added inside the bucket, and after the OCR text of one of its
\* events in the bucket is lengthened.
C25_MoreActivityKeepsWinner ==
    fpc = "returned" =>
        \A k \in 1..Len(focus_timeline) :
            LET b == KthBucket(focus_events, k)
                w == focus_timeline[k]
            IN /\ \A e \in FocusPool :
                      (e.app_name = w /\ TimeInBucket(focus_events, e.timestamp, b)) =>
                          \A p \in OrderedPositions(focus_events, e) :
                              WinnerOfBucket(InsertAt(focus_events, p, e), b) = w
               /\ \A i \in InBucket(focus_events, b) : \A longer \in OcrChoices :
                      (focus_events[i].app_name = w /\ longer > focus_events[i].ocr_len) =>
                          WinnerOfBucket([focus_events EXCEPT ![i].ocr_len = longer], b) = w

\* the winner wins on a tie only, and there is room for one more event
C25_Witness ==
    /\ fpc = "returned"
    /\ Len(focus_events) = 2
    /\ Len(focus_timeline) = 1
    /\ Cardinality(BucketApps(focus_events, 0)) = 2
    /\ AppWeight(focus_events, 0, "VSCode") = AppWeight(focus_events, 0, "Chrome")
    /\ focus_events[1].ocr_len = 600


\* ------------------------------------------------ the trend of one pattern
MaxIntentSessions == 5

FrictionLevels == {"low", "medium", "high", "critical"}

MemberIds == <<"sess_m1", "sess_m2", "sess_m3", "sess_m4", "sess_m5", "sess_m6",
               "sess_m7", "sess_m8">>

\* the start of one more session: 09:00 of day 0 for the first, then an hour
\* after the last
MemberStart(members) ==
    IF members = <<>> THEN At(0, 9, 0, 0, 0)
    ELSE members[Len(members)].start_time + HourTicks

Reversed(seq) == [k \in 1..Len(seq) |-> seq[Len(seq) + 1 - k]]

InitBuild ==
    /\ intent_sessions = <<>>
    /\ pattern_trend = "none"
    /\ bpc = "collect"

\* the caller loads one more session of the intent
AddMember(level) ==
    /\ bpc = "collect"
    /\ Len(intent_sessions) < MaxIntentSessions
    /\ intent_sessions' =
           Append(intent_sessions,
                  Session(MemberIds[Len(intent_sessions) + 1],
                          MemberStart(intent_sessions),
                          "code", 30, 0, level, <<>>))
    /\ UNCHANGED <<pattern_trend, bpc>>
    /\ UNCHANGED not_bvars

\* a call detect_patterns(intent_sessions, min_occurrences=1), the sessions
\* passed oldest first or newest first: one cluster, one pattern, built by
\* _build_pattern
CallBuildPattern(newest_first) ==
    /\ bpc = "collect"
    /\ intent_sessions # <<>>
    /\ intent_sessions' = IF newest_first THEN Reversed(intent_sessions)
                          ELSE intent_sessions
    /\ pattern_trend' = DetectPatterns(intent_sessions', SIMILARITY_THRESHOLD, 1)[1].trend
    /\ bpc' = "built"
    /\ UNCHANGED not_bvars

\* the caller starts over with the sessions of another intent
NewIntent ==
    /\ bpc = "built"
    /\ intent_sessions' = <<>>
    /\ pattern_trend' = "none"
    /\ bpc' = "collect"
    /\ UNCHANGED not_bvars

NextBuild ==
    \/ \E level \in FrictionLevels : AddMember(level)
    \/ \E newest_first \in BOOLEAN : CallBuildPattern(newest_first)
    \/ NewIntent

\* the scores of the claim: LOW=0, MEDIUM=1, HIGH=2, CRITICAL=3
ScoreOfLevel == [low |-> 0, medium |-> 1, high |-> 2, critical |-> 3]

\* the friction levels of the members, the earliest start first
LevelsByStart(members) ==
    [r \in 1..Len(members) |->
        LET k == CHOOSE j \in 1..Len(members) :
                     Cardinality({i \in 1..Len(members) :
                         members[i].start_time < members[j].start_time}) = r - 1
        IN members[k].friction_level]

\* ten times (mean score of the second half - mean score of the first half),
\* times the lengths of both halves, for the split at index n \div 2
TenTimesDiff(levels) ==
    LET n == Len(levels)
        first == {r \in 1..n : r <= n \div 2}
        second == (1..n) \ first
        Total(rs) == SumSeq([r \in 1..n |-> IF r \in rs THEN ScoreOfLevel[levels[r]] ELSE 0])
    IN 10 * (Total(second) * Cardinality(first) - Total(first) * Cardinality(second))

ThreeTimesLengths(levels) ==
    3 * (Len(levels) \div 2) * (Len(levels) - Len(levels) \div 2)

MaxJobDays == 62
MaxAdoptDay == 1

\* json.loads(outcome.model_dump_json()): adopted_date is written as its ISO
\* string, the other fields of an outcome are strings, numbers and booleans
OutcomeDumpJson(o) == [o EXCEPT !.adopted_date = DumpOptional(@)]

\* ReplacementOutcome.model_validate(data)
OutcomeValidate(data) == [data EXCEPT !.adopted_date = ValidateOptional(@)]

\* save_outcome(o), that is save_outcomes([o]): the list written to
\* outcomes.json, with o appended or put in the place of the entry of its id
SaveOutcome(file, o) ==
    LET data == OutcomeDumpJson(o)
    IN IF \A k \in 1..Len(file) : file[k].id # o.id
       THEN Append(file, data)
       ELSE [k \in 1..Len(file) |-> IF file[k].id = o.id THEN data ELSE file[k]]

\* load_outcomes()
LoadOutcomes(file) == [k \in 1..Len(file) |-> OutcomeValidate(file[k])]

\* store.load_sessions(day) while the job runs: the user works 40 minutes on
\* "code" every tenth day and 20 minutes on "mail" every fourteenth
StoredSessionsOn(day) ==
    (IF day % 10 = 3
     THEN <<Session("sess_code", At(day, 9, 0, 0, 0), "code", 40, 2, "low", <<"VSCode">>)>>
     ELSE <<>>)
    \o (IF day % 14 = 5
        THEN <<Session("sess_mail", At(day, 10, 0, 0, 0), "mail", 20, 1, "medium",
                       <<"Mail">>)>>
        ELSE <<>>)

\* the loop `for i in range(7)`: the sessions of today and of the six days before
RecentSessionsOfJob(today) == Concat([i \in 1..7 |-> StoredSessionsOn(today - (i - 1))])

\* as ToMeasure, had the job measured every outcome of the store
ToMeasureAll(outcomes, now) == outcomes

\* to_measure = [o for o in outcomes if should_measure(o)]
ToMeasure(outcomes, now) == SelectSeq(outcomes, LAMBDA o : ShouldMeasure(o, now))

\* the loop `for outcome in to_measure`: outcomes.json after it
RECURSIVE MeasureAndSave(_, _, _, _)
MeasureAndSave(file, to_measure, sessions, now) ==
    IF to_measure = <<>> THEN file
    ELSE MeasureAndSave(
             SaveOutcome(file, MeasureOutcomeRecord(Head(to_measure), sessions, 7, now)),
             Tail(to_measure), sessions, now)

\* run_measure_job at `now`: outcomes.json after it and the count it returns
RunMeasureJob(file, now) ==
    LET to_measure == ToMeasure(LoadOutcomes(file), now)
    IN IF to_measure = <<>> THEN [file |-> file, count |-> 0]
       ELSE [file |-> MeasureAndSave(file, to_measure,
                                     RecentSessionsOfJob(Today(now)), now),
             count |-> Len(to_measure)]

\* the baseline the user gives when adopting: 30 minutes a week for "code",
\* nothing for "mail"
BaselineOf(proposal) == IF proposal.diagnosis_id = "diag_code" THEN 300 ELSE 0

\* the time that passes between two things that happen
WaitChoices == {12 * HourTicks, 7 * DayTicks, 30 * DayTicks}

InitMeasureJob ==
    /\ outcomes_file = <<>>
    /\ job_clock = At(0, 7, 0, 0, 0)
    /\ job_count = <<>>

\* the user adopts a replacement: create_outcome and save_outcome
AdoptReplacement(proposal) ==
    /\ Today(job_clock) <= MaxAdoptDay
    /\ outcomes_file' = SaveOutcome(outcomes_file,
                                    CreateOutcomeRecord(proposal, BaselineOf(proposal),
                                                        job_clock))
    /\ job_count' = <<>>
    /\ UNCHANGED job_clock
    /\ UNCHANGED not_mvars

\* time passes
JobTimePasses(delta) ==
    /\ Today(job_clock + delta) <= MaxJobDays
    /\ job_clock' = job_clock + delta
    /\ job_count' = <<>>
    /\ UNCHANGED outcomes_file
    /\ UNCHANGED not_mvars

\* measure_loop wakes at one of MEASURE_TIMES and calls run_measure_job
MeasureJobRuns ==
    /\ \E k \in 1..Len(MEASURE_TIMES) : job_clock % DayTicks = MEASURE_TIMES[k]
    /\ outcomes_file' = RunMeasureJob(outcomes_file, job_clock).file
    /\ job_count' = <<RunMeasureJob(outcomes_file, job_clock).count>>
    /\ UNCHANGED job_clock
    /\ UNCHANGED not_mvars

NextMeasureJob ==
    \/ \E p \in ProposalPool : AdoptReplacement(p)
    \/ \E delta \in WaitChoices : JobTimePasses(delta)
    \/ MeasureJobRuns

\* the expected count of the claim for an age in days
ExpectedForAge(age_days) ==
    IF age_days <= 30 THEN age_days \div 7 ELSE 4 + (age_days - 30) \div 30

\* the calendar days between the adoption of a stored outcome and `now`
StoredAge(data, now) == OrdinalOf(now) - OrdinalOf(FromIsoFormat(data.adopted_date[1]))

\* the stored outcomes that are due at `now`
DueAt(file, now) ==
    {k \in 1..Len(file) :
        /\ StoredAge(file[k], now) >= 7
        /\ file[k].weeks_tracked < ExpectedForAge(StoredAge(file[k], now))}

\* C30: when the outcomes made by create_outcome are measured by
\* run_measure_job only, each run measures each due outcome exactly once and
\* leaves the others as they are, and at every moment weeks_tracked is at most
\* the expected count for the outcome's age in days (age_days \div 7 up to 30
\* days, 4 + (age_days - 30) \div 30 after) and 0 while the age is below 7 days.
C30_MeasuredOncePerDueRun ==
    [][/\ job_count' # <<>> =>
              /\ Len(outcomes_file') = Len(outcomes_file)
              /\ job_count' = <<Cardinality(DueAt(outcomes_file, job_clock))>>
              /\ \A k \in 1..Len(outcomes_file) :
                     /\ outcomes_file'[k].id = outcomes_file[k].id
                     /\ IF k \in DueAt(outcomes_file, job_clock)
                        THEN outcomes_file'[k].weeks_tracked =
                                 outcomes_file[k].weeks_tracked + 1
                        ELSE outcomes_file'[k] = outcomes_file[k]
       /\ \A k \in 1..Len(outcomes_file') :
              /\ outcomes_file'[k].weeks_tracked
                     <= ExpectedForAge(StoredAge(outcomes_file'[k], job_clock'))
              /\ StoredAge(outcomes_file'[k], job_clock') < 7
                     => outcomes_file'[k].weeks_tracked = 0]_vars

\* a run on day 60 measured the outcome adopted on day 0 for the fifth time and
\* skipped the one adopted on day 1, which has its four weekly measurements
C30_Witness ==
    /\ job_count = <<1>>
    /\ Len(outcomes_file) = 2
    /\ \E k, j \in 1..2 :
           /\ StoredAge(outcomes_file[k], job_clock) = 60
           /\ outcomes_file[k].weeks_tracked = 5
           /\ StoredAge(outcomes_file[j], job_clock) = 59
           /\ outcomes_file[j].weeks_tracked = 4

Init == InitCluster /\ InitStore /\ InitPatterns /\ InitTrends /\ InitOutcome /\ InitGate /\ InitFire /\ InitDaemon /\ InitLoops /\ InitDenoiser /\ InitBuild /\ InitMeasureJob

Next == NextCluster

Spec == Init /\ [][Next]_vars

SpecStore == Init /\ [][NextStore]_vars

SpecPatterns == Init /\ [][NextPatterns]_vars

SpecTrends == Init /\ [][NextTrends]_vars

SpecOutcome == Init /\ [][NextOutcome]_vars

SpecGate == Init /\ [][NextGate]_vars

SpecFire == Init /\ [][NextFire]_vars

SpecCore == Init /\ [][NextCore]_vars

SpecDaemon == Init /\ [][NextDaemon]_vars

SpecLoops == Init /\ [][NextLoops]_vars

SpecDenoiser == Init /\ [][NextDenoiser]_vars

SpecBuild == Init /\ [][NextBuild]_vars

SpecMeasureJob == Init /\ [][NextMeasureJob]_vars

====
